---- MODULE Spec2Model ----
(***************************************************************************)
(* Model of fetch-stations.js: the resumable, budget-bounded collection of *)
(* station details over several invocations of the script.                 *)
(*                                                                         *)
(* Disk state (state/, output/, stations.json) survives an invocation; the *)
(* variables of main() and processStations() live for one invocation.      *)
(* The numeric constants of the script are scaled down so that the state   *)
(* space is finite; the value the source gives is noted at each one.       *)
(***************************************************************************)
EXTENDS Integers, Sequences, FiniteSets, TLC

\* ---------------------------------------------------------------- bounds
NumStations == 3            \* station ids the remote listing can return
MaxInvocations == 3         \* invocations of the script in one behaviour
MaxFaults == 1              \* kills and write errors in one behaviour
MaxFaultyInvocations == 2   \* invocations in a behaviour that has faults
MaxTotal == 100             \* stations of the largest store of SpecOutcome
MaxFailed == 5              \* permanently failed stations of such a store
LoopStations == 5           \* stations of the store of SpecLoop
CycleStations == 3          \* stations of the store of SpecCycle
MaxLoopInvocations == 1     \* invocations in a behaviour of SpecLoop
MaxWorkflowRuns == 2        \* runs of the program under the workflow

\* ------------------------------------------------- constants of the script
MAX_HISTORY_FILES == 2                      \* source: 10
MIN_INTERVAL_DAYS_IF_COMPLETE == 2          \* source: 7
MAX_REQUESTS_PER_RUN == 2                   \* source: 1000
MAX_RETRIES == 2                            \* source: 5
PERMANENT_FAILURE_THRESHOLD_PERCENT == 50   \* source: 1
MAX_DURATION_MS == 1                        \* source: 15 * 60 * 1000
SAVE_EVERY == 2                             \* source: 10 (processedCount % 10)
\* PERMANENT_FAILURE_THRESHOLD_PERCENT as the source has it, and the threshold
\* its requirements ask for
DefaultThresholdPercent == 1
DocumentedThresholdPercent == 2

\* null and a value that may be null
None == <<>>
Some(x) == <<x>>
NoDate == -1                \* parseTimestamp's null
NoExit == -1                \* no invocation has finished yet
Killed == 137               \* exit status of a process ended by SIGKILL
\* a file: text that parses to data, or text that JSON.parse rejects
File(data) == [ok |-> TRUE, data |-> data]
CORRUPT == [ok |-> FALSE, data |-> <<>>]
Ids == 1..NumStations
\* the scheduler starts the script a day or a whole interval after the last
\* start; day 1 is the day of the first start
Gaps(n) == IF n = 0 THEN {1} ELSE {1, MIN_INTERVAL_DAYS_IF_COMPLETE}

\* ------------------------------------------------------------ timestamps
\* The clock counts days from 2026-12-30, so that the window crosses a month
\* and a year boundary.
DateOfDay(n) == IF n < 2 THEN <<2026, 12, 30 + n>> ELSE <<2027, 1, n - 1>>

DayOfDate(d) == IF d[1] = 2026 THEN d[3] - 30 ELSE d[3] + 1

padStart2(n) == <<n \div 10, n % 10>>

\* generateTimestamp: YYYYMMDD as a string of digits (time of day is below
\* the resolution of the clock)
generateTimestamp(now) ==
    LET d == DateOfDay(now)
    IN  <<d[1] \div 1000, (d[1] \div 100) % 10, (d[1] \div 10) % 10, d[1] % 10>>
        \o padStart2(d[2]) \o padStart2(d[3])

\* parseTimestamp: substring fields back to a date, then to the clock's unit
parseTimestamp(ts) ==
    IF Len(ts) # 8 THEN NoDate
    ELSE LET year  == ts[1] * 1000 + ts[2] * 100 + ts[3] * 10 + ts[4]
             month == ts[5] * 10 + ts[6]
             day   == ts[7] * 10 + ts[8]
         IN  IF month \in 1..12 /\ day \in 1..31
             THEN DayOfDate(<<year, month, day>>)
             ELSE NoDate

\* a.localeCompare(b) < 0 for two digit strings
RECURSIVE localeCompareLess(_, _)
localeCompareLess(a, b) ==
    IF a = <<>> THEN b # <<>>
    ELSE IF b = <<>> THEN FALSE
    ELSE IF Head(a) # Head(b) THEN Head(a) < Head(b)
    ELSE localeCompareLess(Tail(a), Tail(b))

\* readdir(STATE_DIR).filter(...).sort((a, b) => b.localeCompare(a))
RECURSIVE sortDescending(_)
sortDescending(S) ==
    IF S = {} THEN <<>>
    ELSE LET m == CHOOSE x \in S : \A y \in S \ {x} : localeCompareLess(y, x)
         IN  <<m>> \o sortDescending(S \ {m})

\* ---------------------------------------------------------------- stations
\* mutation: the sort loses the station with the largest id
sortStationsById_m(stations) ==
    LET rank(k) == Cardinality({j \in 1..Len(stations) :
                        \/ stations[j].id < stations[k].id
                        \/ stations[j].id = stations[k].id /\ j < k}) + 1
    IN  IF stations = <<>> THEN <<>>
        ELSE [p \in 1..(Len(stations) - 1) |->
                stations[CHOOSE k \in 1..Len(stations) : rank(k) = p]]

\* sortStationsById: Array.prototype.sort with (a, b) => a.id - b.id, which is
\* stable: an element goes after those of smaller id and after the earlier
\* ones of equal id
sortStationsById(stations) ==
    LET rank(k) == Cardinality({j \in 1..Len(stations) :
                        \/ stations[j].id < stations[k].id
                        \/ stations[j].id = stations[k].id /\ j < k}) + 1
    IN  [p \in 1..Len(stations) |->
            stations[CHOOSE k \in 1..Len(stations) : rank(k) = p]]

\* the sockets the remote listing gives for station i: none for an even id,
\* two, not in id order, for an odd one
ListedSockets(i) ==
    IF i % 2 = 0 THEN <<>> ELSE <<[id |-> 10 * i + 2], [id |-> 10 * i + 1]>>

\* the element of the remote listing for station i
ListedStation(i) ==
    [id |-> i, lat |-> 40 + i, lng |-> 30 + i, green |-> "EVET",
     sockets |-> ListedSockets(i), available |-> TRUE]

\* mutation: the fresh record already counts one attempt
fromListing_m(station) ==
    [id |-> station.id, lat |-> station.lat, lng |-> station.lng,
     sockets |-> station.sockets,
     fetchStatus |-> "pending", fetchAttempts |-> 1,
     lastAttemptTimestamp |-> None, details |-> None, errorInfo |-> None]

\* the record fetchStationList maps a listed station to
fromListing(station) ==
    [id |-> station.id, lat |-> station.lat, lng |-> station.lng,
     sockets |-> station.sockets,
     fetchStatus |-> "pending", fetchAttempts |-> 0,
     lastAttemptTimestamp |-> None, details |-> None, errorInfo |-> None]

\* the record fetchStationList builds for station i
PendingStation(i) == fromListing(ListedStation(i))

\* the raw detail payload the remote service returns for station i
RawDetail(i) == [raw |-> i]

normalizeStationData(d) == [normalized |-> d.raw]

\* mutation: the retry limit is not looked at
isRetryEligible_m(s) ==
    s.fetchStatus = "pending" \/ s.fetchStatus = "failed"

isRetryEligible(s) ==
    \/ s.fetchStatus = "pending"
    \/ s.fetchStatus = "failed" /\ s.fetchAttempts < MAX_RETRIES

\* mutation: a failed station with retries left no longer counts as open
isStateComplete_m(stations) ==
    ~ \E k \in 1..Len(stations) : stations[k].fetchStatus = "pending"

isStateComplete(stations) ==
    ~ \E k \in 1..Len(stations) : isRetryEligible(stations[k])

\* mutation: > instead of >= against MAX_RETRIES
countPermanentlyFailedStations_m(stations) ==
    Cardinality({k \in 1..Len(stations) :
                   /\ stations[k].fetchStatus = "failed"
                   /\ stations[k].fetchAttempts > MAX_RETRIES})

countPermanentlyFailedStations(stations) ==
    Cardinality({k \in 1..Len(stations) :
                   /\ stations[k].fetchStatus = "failed"
                   /\ stations[k].fetchAttempts >= MAX_RETRIES})

\* mutation: >= instead of > against the threshold
exceedsThreshold_m(count, total, threshold) ==
    IF total > 0 THEN count * 100 >= threshold * total ELSE 0 >= threshold

\* permFailedPercent > threshold, with permFailedPercent =
\* total > 0 ? (count / total) * 100 : 0, over the integers
exceedsThreshold(count, total, threshold) ==
    IF total > 0 THEN count * 100 > threshold * total ELSE 0 > threshold

\* mutation: completeness is not asked for
isUsable_m(stations, threshold) ==
    ~ exceedsThreshold(countPermanentlyFailedStations(stations),
                       Len(stations), threshold)

\* mutation: a store without stations is not taken for the alias
isUsable_m2(stations, threshold) ==
    /\ Len(stations) > 0
    /\ isStateComplete(stations)
    /\ ~ exceedsThreshold(countPermanentlyFailedStations(stations),
                          Len(stations), threshold)

\* updateLatestCompleteOutput: complete and permFailedPercent <= threshold
isUsable(stations, threshold) ==
    /\ isStateComplete(stations)
    /\ ~ exceedsThreshold(countPermanentlyFailedStations(stations),
                          Len(stations), threshold)

\* mutation: the socket ids of a placeholder are left in listing order
createCleanedOutputData_m(state) ==
    [k \in 1..Len(state) |->
        IF state[k].fetchStatus = "success" /\ state[k].details # None
        THEN [id |-> state[k].id,
              data |-> Some(normalizeStationData(state[k].details[1])),
              basic |-> None]
        ELSE [id |-> state[k].id, data |-> None,
              basic |-> Some([lat |-> state[k].lat, lng |-> state[k].lng,
                              sockets |-> state[k].sockets])]]

\* createCleanedOutputData: the clean projection of a state array. data is
\* the normalized detail of a succeeded station; basic holds what a
\* placeholder takes from the listing (lat, lng, socket ids in id order)
createCleanedOutputData(state) ==
    [k \in 1..Len(state) |->
        IF state[k].fetchStatus = "success" /\ state[k].details # None
        THEN [id |-> state[k].id,
              data |-> Some(normalizeStationData(state[k].details[1])),
              basic |-> None]
        ELSE [id |-> state[k].id, data |-> None,
              basic |-> Some([lat |-> state[k].lat, lng |-> state[k].lng,
                              sockets |-> sortStationsById(state[k].sockets)])]]

\* stations.filter(eligible).slice(0, MAX_REQUESTS_PER_RUN), as ids
RECURSIVE eligibleIds(_)
eligibleIds(stations) ==
    IF stations = <<>> THEN <<>>
    ELSE (IF isRetryEligible(Head(stations)) THEN <<Head(stations).id>> ELSE <<>>)
         \o eligibleIds(Tail(stations))

slice(s, n) == SubSeq(s, 1, IF Len(s) < n THEN Len(s) ELSE n)

\* stations.findIndex(s => s.id === id)
findIndex(stations, i) ==
    IF \E k \in 1..Len(stations) : stations[k].id = i
    THEN CHOOSE k \in 1..Len(stations) :
            /\ stations[k].id = i
            /\ \A j \in 1..(k - 1) : stations[j].id # i
    ELSE 0

\* loadState: null when the file does not parse, else the sorted array
\* mutation: a file that cannot be read loads as an empty store
loadState_m(file) ==
    IF file.ok THEN Some(sortStationsById(file.data)) ELSE Some(<<>>)

loadState(file) == IF file.ok THEN Some(sortStationsById(file.data)) ELSE None

\* ------------------------------------------------------------------ state
VARIABLES
    clock,              \* current day
    stateFiles,         \* state/data_<ts>.json : timestamp -> content
    outputFiles,        \* output/stations_<ts>.json : timestamp -> content
    alias,              \* stations.json, None while absent
    pc,                 \* position of the running invocation, "idle" between two
    ret,                \* where saveState returns to
    exitCode,
    currentStations,
    currentTs,          \* timestamp in currentStateFilePath / currentOutputFilePath
    startNewRun,
    elapsed,            \* Date.now() - scriptStartTime
    queue,              \* stationsToProcess, as ids
    idx,                \* position of the for-of loop in queue
    processedCount,
    timeLimitReached,
    \* history of the current (or last) invocation, for the properties
    invocations,        \* invocations started so far in this behaviour
    lastExit,           \* exit status of the last finished invocation
    branch,             \* "resume", "skip" or "fresh"
    listFetches,        \* calls of fetchStationList
    attempted,          \* ids passed to fetchStationDetails, in order
    startStations,      \* the array processing starts from: the one loadState
                        \* returned or the one fetchStationList built
    diskAtStart,        \* stateFiles, outputFiles and alias when it started
    aliasWritten,       \* stations.json was written
    saves,              \* timestamps of the state files written
    timeUpAtCheck,      \* elapsed >= MAX_DURATION_MS held at some loop check
    cleanupRan,
    faults,             \* kills and write errors so far
    createdOn,          \* the day each snapshot timestamp was generated
    thresholdPercent,   \* the permanent failure threshold in force
    invocationLimit,    \* how many invocations this behaviour may start
    requestLimit,       \* the limit on detail fetches per invocation in force
    \* the workflow around the program (workflow.yaml, run_and_commit.sh)
    shPc,               \* position of the workflow run, "off" without one
    launched,           \* invocations of the program the script has started
    node_exit_code,     \* exit status of the node command, NoExit before it
    remote,             \* what the remote repository holds of state/,
                        \* output/ and stations.json
    shExit              \* exit status of run_and_commit.sh, NoExit before it

vars == <<clock, stateFiles, outputFiles, alias, pc, ret, exitCode,
          currentStations, currentTs, startNewRun, elapsed, queue, idx,
          processedCount, timeLimitReached, invocations, lastExit, branch,
          listFetches, attempted, startStations, diskAtStart, aliasWritten, saves,
          timeUpAtCheck, cleanupRan, faults, createdOn, thresholdPercent,
          invocationLimit, requestLimit, shPc, launched, node_exit_code,
          remote, shExit>>

workflow == <<shPc, launched, node_exit_code, remote, shExit>>
config == <<thresholdPercent, invocationLimit, requestLimit, workflow>>
disk == <<stateFiles, outputFiles, alias>>
loopVars == <<queue, idx, processedCount, timeLimitReached>>
history == <<invocations, lastExit, branch, listFetches, attempted, startStations,
             diskAtStart, aliasWritten, saves, timeUpAtCheck, cleanupRan,
             faults>>

EmptyFiles == [t \in {} |-> CORRUPT]

\* the program is started directly, not by the workflow
NoWorkflow ==
    /\ shPc = "off"
    /\ launched = 0
    /\ node_exit_code = NoExit
    /\ remote = [state |-> EmptyFiles, output |-> EmptyFiles, stations |-> None]
    /\ shExit = NoExit

\* the variables of the program before its first invocation on an empty disk
InitProgram(limit) ==
    /\ clock = 0
    /\ stateFiles = EmptyFiles
    /\ outputFiles = EmptyFiles
    /\ alias = None
    /\ pc = "idle"
    /\ ret = "none"
    /\ exitCode = 0
    /\ currentStations = None
    /\ currentTs = None
    /\ startNewRun = TRUE
    /\ elapsed = 0
    /\ queue = <<>>
    /\ idx = 1
    /\ processedCount = 0
    /\ timeLimitReached = FALSE
    /\ invocations = 0
    /\ lastExit = NoExit
    /\ branch = "none"
    /\ listFetches = 0
    /\ attempted = <<>>
    /\ startStations = None
    /\ diskAtStart = <<EmptyFiles, EmptyFiles, None>>
    /\ aliasWritten = FALSE
    /\ saves = {}
    /\ timeUpAtCheck = FALSE
    /\ cleanupRan = FALSE
    /\ faults = 0
    /\ createdOn = <<>>
    /\ thresholdPercent = PERMANENT_FAILURE_THRESHOLD_PERCENT
    /\ invocationLimit = limit
    /\ requestLimit = MAX_REQUESTS_PER_RUN

InitWith(limit) == InitProgram(limit) /\ NoWorkflow

Init == InitWith(MaxInvocations)

\* ------------------------------------------------------- main: run state
\* mutation: <= instead of < against the minimum interval
isTooRecent_m(daysAgo) == daysAgo <= MIN_INTERVAL_DAYS_IF_COMPLETE

\* daysAgo < MIN_INTERVAL_DAYS_IF_COMPLETE
isTooRecent(daysAgo) == daysAgo < MIN_INTERVAL_DAYS_IF_COMPLETE

\* main, "Determine Run State": which snapshot this invocation works on
StartInvocation ==
    /\ pc = "idle"
    /\ invocations < invocationLimit
    /\ \E gap \in Gaps(invocations) :
        LET now       == clock + gap
            files     == sortDescending(DOMAIN stateFiles)
            latest    == files[1]
            file      == loadState(stateFiles[latest])
            stations  == file[1]
            complete  == isStateComplete(stations)
            needsProcessing ==
                \/ ~ complete
                \/ /\ complete
                   /\ exceedsThreshold(countPermanentlyFailedStations(stations),
                          Len(stations), thresholdPercent)
            latestDate == parseTimestamp(latest)
            decision  ==
                IF files = <<>> THEN "fresh"
                ELSE IF file = None THEN "fresh"
                ELSE IF needsProcessing THEN "resume"
                ELSE IF latestDate # NoDate
                     THEN IF isTooRecent(now - latestDate)
                          THEN "skip" ELSE "fresh"
                ELSE "fresh"
        IN  /\ clock' = now
            /\ branch' = decision
            /\ startStations' = IF files = <<>> THEN None ELSE file
            /\ currentStations' = IF files = <<>> THEN None ELSE file
            /\ startNewRun' = (decision # "resume")
            /\ createdOn' = IF decision = "fresh"
                            THEN (generateTimestamp(now) :> now) @@ createdOn
                            ELSE createdOn
            /\ currentTs' = CASE decision = "resume" -> latest
                              [] decision = "fresh"  -> generateTimestamp(now)
                              [] OTHER               -> None
            /\ pc' = CASE decision = "resume" -> "process"
                       [] decision = "fresh"  -> "fetchList"
                       [] OTHER               -> "publish"
    /\ exitCode' = 0
    /\ elapsed' = 0
    /\ ret' = "none"
    /\ queue' = <<>> /\ idx' = 1 /\ processedCount' = 0
    /\ timeLimitReached' = FALSE
    /\ invocations' = invocations + 1
    /\ listFetches' = 0
    /\ attempted' = <<>>
    /\ diskAtStart' = <<stateFiles, outputFiles, alias>>
    /\ aliasWritten' = FALSE
    /\ saves' = {}
    /\ timeUpAtCheck' = FALSE
    /\ cleanupRan' = FALSE
    /\ UNCHANGED <<disk, lastExit, faults, config>>

\* the remote listing: the stations from some id up to NumStations (all of
\* them, some, or none), in any order
Listings ==
    UNION {{s \in [1..n -> (NumStations - n + 1)..NumStations] :
                \A a, b \in 1..n : a # b => s[a] # s[b]} :
           n \in 0..NumStations}

\* fetchStationList returns: sorted, every station pending
FetchListOk ==
    /\ pc = "fetchList"
    /\ \E listing \in Listings :
        LET raw    == [k \in 1..Len(listing) |-> ListedStation(listing[k])]
            sorted == sortStationsById(raw)
            fresh  == [k \in 1..Len(sorted) |-> fromListing(sorted[k])]
        IN  /\ currentStations' = Some(fresh)
            /\ startStations' = Some(fresh)
    /\ listFetches' = listFetches + 1
    /\ pc' = "save"
    /\ ret' = "process"
    /\ UNCHANGED <<config, createdOn, clock,
                   disk, exitCode, currentTs, startNewRun, elapsed,
                   loopVars, invocations, lastExit, branch, attempted,
                   diskAtStart, aliasWritten, saves, timeUpAtCheck, cleanupRan,
                   faults>>

\* fetchStationList throws: main's catch sets exitCode and drops the stations
FetchListFail ==
    /\ pc = "fetchList"
    /\ listFetches' = listFetches + 1
    /\ exitCode' = 1
    /\ currentStations' = None
    /\ pc' = "process"
    /\ UNCHANGED <<config, createdOn, clock,
                   disk, ret, currentTs, startNewRun, elapsed,
                   loopVars, invocations, lastExit, branch, attempted, startStations,
                   diskAtStart, aliasWritten, saves, timeUpAtCheck, cleanupRan,
                   faults>>

\* time passes while the script awaits the network or the file system (the
\* time spent in the delay is counted with that of the fetch after it)
Tick ==
    /\ pc \in {"process", "fetch"}
    /\ elapsed < MAX_DURATION_MS
    /\ elapsed' = elapsed + 1
    /\ UNCHANGED <<config, createdOn, clock,
                   disk, pc, ret, exitCode, currentStations, currentTs,
                   startNewRun, loopVars, history>>

\* stations.filter(eligible).slice(0, MAX_REQUESTS_PER_RUN); requestLimit is the MAX_REQUESTS_PER_RUN in force
stationsToProcess(stations) == slice(eligibleIds(stations), requestLimit)

\* main, "Process Stations": processStations, a consistency save, or neither
Process ==
    /\ pc = "process"
    /\ IF currentStations = None
       THEN /\ exitCode' = IF exitCode = 0 THEN 1 ELSE exitCode
            /\ pc' = "publish"
            /\ UNCHANGED <<ret, loopVars>>
       ELSE IF ~ isStateComplete(currentStations[1])
       THEN /\ queue' = stationsToProcess(currentStations[1])
            /\ idx' = 1
            /\ processedCount' = 0
            /\ timeLimitReached' = FALSE
            /\ pc' = "loop"
            /\ UNCHANGED <<ret, exitCode>>
       ELSE IF ~ startNewRun
       THEN /\ pc' = "save"
            /\ ret' = "evaluate"
            /\ UNCHANGED <<exitCode, loopVars>>
       ELSE /\ pc' = "evaluate"
            /\ UNCHANGED <<ret, exitCode, loopVars>>
    /\ UNCHANGED <<config, createdOn, clock,
                   disk, currentStations, currentTs, startNewRun,
                   elapsed, history>>

\* mutation: > instead of >= against the maximum duration
timeExceeded_m(elapsedTime) == elapsedTime > MAX_DURATION_MS

\* elapsedTime >= MAX_DURATION_MS
timeExceeded(elapsedTime) == elapsedTime >= MAX_DURATION_MS

\* !station.id for a numeric id: 0 is the falsy one
isFalsy(id) == id = 0

\* if (processedCount > 0) await delay(REQUEST_DELAY_MS)
needsDelay(count) == count > 0

\* processStations: head of the for-of loop, with the time limit check and
\* the skip of an entry without a usable id or without a record in the store
\* (counted as processed), and the final save once the loop is left
LoopCheck ==
    /\ pc = "loop"
    /\ IF idx > Len(queue)
       THEN /\ pc' = "save"
            /\ ret' = "evaluate"
            /\ UNCHANGED <<timeLimitReached, timeUpAtCheck, idx, processedCount>>
       ELSE IF timeExceeded(elapsed)
       THEN /\ timeLimitReached' = TRUE
            /\ timeUpAtCheck' = TRUE
            /\ pc' = "save"
            /\ ret' = "evaluate"
            /\ UNCHANGED <<idx, processedCount>>
       ELSE IF isFalsy(queue[idx])
                \/ findIndex(currentStations[1], queue[idx]) = 0
       THEN /\ processedCount' = processedCount + 1
            /\ idx' = idx + 1
            /\ pc' = "loop"
            /\ UNCHANGED <<ret, timeLimitReached, timeUpAtCheck>>
       ELSE /\ pc' = IF needsDelay(processedCount) THEN "delay" ELSE "fetch"
            /\ UNCHANGED <<ret, timeLimitReached, timeUpAtCheck, idx,
                           processedCount>>
    /\ UNCHANGED <<config, createdOn, clock,
                   disk, exitCode, currentStations, currentTs,
                   startNewRun, elapsed, queue,
                   invocations, lastExit, branch, listFetches, attempted,
                   startStations, diskAtStart, aliasWritten, saves, cleanupRan,
                   faults>>

\* processStations: await delay(REQUEST_DELAY_MS) before the fetch
Delay ==
    /\ pc = "delay"
    /\ pc' = "fetch"
    /\ UNCHANGED <<config, createdOn, clock,
                   disk, ret, exitCode, currentStations, currentTs,
                   startNewRun, elapsed, loopVars, history>>

\* mutation: a success clears the attempt count
applyResult_m3(s, success, now) ==
    IF success
    THEN [s EXCEPT !.lastAttemptTimestamp = Some(now),
                   !.details = Some(RawDetail(s.id)),
                   !.fetchStatus = "success",
                   !.fetchAttempts = 0,
                   !.errorInfo = None]
    ELSE [s EXCEPT !.lastAttemptTimestamp = Some(now),
                   !.fetchAttempts = @ + 1,
                   !.errorInfo = Some("error"),
                   !.fetchStatus = "failed"]

\* mutation: a successful fetch does not clear the error of an earlier failure
applyResult_m4(s, success, now) ==
    IF success
    THEN [s EXCEPT !.lastAttemptTimestamp = Some(now),
                   !.details = Some(RawDetail(s.id)),
                   !.fetchStatus = "success",
                   !.fetchAttempts = @ + 1]
    ELSE [s EXCEPT !.lastAttemptTimestamp = Some(now),
                   !.fetchAttempts = @ + 1,
                   !.errorInfo = Some("error"),
                   !.fetchStatus = "failed"]

\* mutation: a failed fetch leaves no attempt timestamp
applyResult_m2(s, success, now) ==
    IF success
    THEN [s EXCEPT !.lastAttemptTimestamp = Some(now),
                   !.details = Some(RawDetail(s.id)),
                   !.fetchStatus = "success",
                   !.fetchAttempts = @ + 1,
                   !.errorInfo = None]
    ELSE [s EXCEPT !.fetchAttempts = @ + 1,
                   !.errorInfo = Some("error"),
                   !.fetchStatus = "failed"]

\* mutation: a successful fetch does not count as an attempt
applyResult_m(s, success, now) ==
    IF success
    THEN [s EXCEPT !.lastAttemptTimestamp = Some(now),
                   !.details = Some(RawDetail(s.id)),
                   !.fetchStatus = "success",
                   !.errorInfo = None]
    ELSE [s EXCEPT !.lastAttemptTimestamp = Some(now),
                   !.fetchAttempts = @ + 1,
                   !.errorInfo = Some("error"),
                   !.fetchStatus = "failed"]

\* the update processStations applies to stations[stationIndex] after the fetch
applyResult(s, success, now) ==
    IF success
    THEN [s EXCEPT !.lastAttemptTimestamp = Some(now),
                   !.details = Some(RawDetail(s.id)),
                   !.fetchStatus = "success",
                   !.fetchAttempts = @ + 1,
                   !.errorInfo = None]
    ELSE [s EXCEPT !.lastAttemptTimestamp = Some(now),
                   !.fetchAttempts = @ + 1,
                   !.errorInfo = Some("error"),
                   !.fetchStatus = "failed"]

\* whether the loop saves after this station
savesAfter(count, total, limitReached) ==
    ~ limitReached /\ (count % SAVE_EVERY = 0 \/ count = total)

\* retry: a failed fetch keeps the loop on the same station
advance_m(i, success) == IF success THEN i + 1 ELSE i

\* the for-of loop goes on to the next station whatever the fetch returned
advance(i, success) == i + 1

\* processStations: fetchStationDetails for the station at idx and the update
\* of its record
FetchDetail(success) ==
    /\ pc = "fetch"
    /\ LET stationIndex == findIndex(currentStations[1], queue[idx])
       IN  /\ stationIndex # 0
           /\ currentStations' =
                [currentStations EXCEPT
                    ![1][stationIndex] = applyResult(@, success, clock)]
    /\ attempted' = Append(attempted, queue[idx])
    /\ processedCount' = processedCount + 1
    /\ idx' = advance(idx, success)
    /\ IF savesAfter(processedCount + 1, Len(queue), timeLimitReached)
       THEN pc' = "save" /\ ret' = "loop"
       ELSE pc' = "loop" /\ UNCHANGED ret
    /\ UNCHANGED <<config, createdOn, clock,
                   disk, exitCode, currentTs, startNewRun, elapsed,
                   queue, timeLimitReached, invocations, lastExit, branch,
                   listFetches, startStations, diskAtStart, aliasWritten, saves,
                   timeUpAtCheck, cleanupRan,
                   faults>>

FetchDetailOk == FetchDetail(TRUE)

FetchDetailFail == FetchDetail(FALSE)

\* mutation: the checkpoint goes to the first state file of the directory in
\* name order, not to currentStateFilePath
saveState_m(stateOk, outputOk) ==
    LET sorted == sortStationsById(currentStations[1])
        names  == sortDescending(DOMAIN stateFiles \cup {currentTs})
        target == names[Len(names)]
    IN  /\ currentStations' = Some(sorted)
        /\ IF stateOk
           THEN /\ stateFiles' = (target :> File(sorted)) @@ stateFiles
                /\ saves' = saves \cup {target}
           ELSE UNCHANGED <<stateFiles, saves>>
        /\ IF stateOk /\ outputOk
           THEN outputFiles' =
                    (target :> File(createCleanedOutputData(sorted)))
                        @@ outputFiles
           ELSE UNCHANGED outputFiles

\* saveState: sort, write the state file, then createCleanedOutputData and
\* saveFinalOutput; stateOk and outputOk tell whether each writeFile succeeds
\* (a state write that throws skips the output write)
saveState(stateOk, outputOk) ==
    LET sorted == sortStationsById(currentStations[1])
    IN  /\ currentStations' = Some(sorted)
        /\ IF stateOk
           THEN /\ stateFiles' = (currentTs :> File(sorted)) @@ stateFiles
                /\ saves' = saves \cup {currentTs}
           ELSE UNCHANGED <<stateFiles, saves>>
        /\ IF stateOk /\ outputOk
           THEN outputFiles' =
                    (currentTs :> File(createCleanedOutputData(sorted)))
                        @@ outputFiles
           ELSE UNCHANGED outputFiles

SaveState ==
    /\ pc = "save"
    /\ saveState(TRUE, TRUE)
    /\ pc' = ret
    /\ UNCHANGED <<config, createdOn, clock,
                   alias, ret, exitCode, currentTs, startNewRun,
                   elapsed, loopVars, invocations, lastExit, branch,
                   listFetches, attempted, startStations, diskAtStart, aliasWritten,
                   timeUpAtCheck, cleanupRan, faults>>

\* mutation: any permanent failure gives exit code 1
exitCodeFor_m(stations, threshold) ==
    IF countPermanentlyFailedStations(stations) > 0 THEN 1 ELSE 0

\* main, "Determine Exit Code (Threshold Logic)"
exitCodeFor(stations, threshold) ==
    LET permanentlyFailedCount == countPermanentlyFailedStations(stations)
    IN  IF permanentlyFailedCount > 0
        THEN IF exceedsThreshold(permanentlyFailedCount, Len(stations), threshold)
             THEN 1 ELSE 0
        ELSE 0

DetermineExitCode ==
    /\ pc = "evaluate"
    /\ exitCode' = exitCodeFor(currentStations[1], thresholdPercent)
    /\ pc' = "publish"
    /\ UNCHANGED <<config, createdOn, clock,
                   disk, ret, currentStations, currentTs, startNewRun,
                   elapsed, loopVars, history>>

\* updateLatestCompleteOutput: the newest state file that loads, is complete
\* and is within the failure threshold, or None
RECURSIVE latestUsable(_, _, _)
latestUsable(files, contents, threshold) ==
    IF files = <<>> THEN None
    ELSE LET stations == loadState(contents[Head(files)])
         IN  IF stations # None /\ isUsable(stations[1], threshold)
             THEN Head(files)
             ELSE latestUsable(Tail(files), contents, threshold)

\* mutation: stations.json is updated whatever the exit code
Publish_m ==
    /\ pc = "publish"
    /\ LET ts == latestUsable(sortDescending(DOMAIN stateFiles), stateFiles,
                              thresholdPercent)
       IN  IF ts # None /\ ts \in DOMAIN outputFiles
           THEN alias' = Some(outputFiles[ts]) /\ aliasWritten' = TRUE
           ELSE UNCHANGED <<alias, aliasWritten>>
    /\ pc' = "cleanup"
    /\ UNCHANGED <<config, createdOn, clock, stateFiles, outputFiles,
                   ret, exitCode, currentStations, currentTs, startNewRun,
                   elapsed, loopVars, invocations, lastExit, branch,
                   listFetches, attempted, startStations, diskAtStart, saves,
                   timeUpAtCheck, cleanupRan, faults>>

\* main, "Update Latest Complete Output File (Conditional)"
Publish ==
    /\ pc = "publish"
    /\ LET ts == latestUsable(sortDescending(DOMAIN stateFiles), stateFiles,
                              thresholdPercent)
       IN  IF exitCode = 0 /\ ts # None /\ ts \in DOMAIN outputFiles
           THEN alias' = Some(outputFiles[ts]) /\ aliasWritten' = TRUE
           ELSE UNCHANGED <<alias, aliasWritten>>
    /\ pc' = "cleanup"
    /\ UNCHANGED <<config, createdOn, clock,
                   stateFiles, outputFiles, ret, exitCode,
                   currentStations, currentTs, startNewRun, elapsed, loopVars,
                   invocations, lastExit, branch, listFetches, attempted,
                   startStations, diskAtStart, saves, timeUpAtCheck, cleanupRan,
                   faults>>

\* mutation: the files before the oldest MAX_HISTORY_FILES are deleted
filesToDelete_m(names) ==
    LET sorted == sortDescending(names)
    IN  IF Len(sorted) > MAX_HISTORY_FILES
        THEN {sorted[k] : k \in 1..(Len(sorted) - MAX_HISTORY_FILES)}
        ELSE {}

\* cleanupOldFiles: the state files after the newest MAX_HISTORY_FILES
filesToDelete(names) ==
    LET sorted == sortDescending(names)
    IN  IF Len(sorted) > MAX_HISTORY_FILES
        THEN {sorted[k] : k \in (MAX_HISTORY_FILES + 1)..Len(sorted)}
        ELSE {}

\* cleanupOldFiles, then process.exit(exitCode)
CleanupAndExit ==
    /\ pc = "cleanup"
    /\ LET gone == filesToDelete(DOMAIN stateFiles)
       IN  /\ stateFiles' = [t \in DOMAIN stateFiles \ gone |-> stateFiles[t]]
           /\ outputFiles' = [t \in DOMAIN outputFiles \ gone |-> outputFiles[t]]
    /\ cleanupRan' = TRUE
    /\ lastExit' = exitCode
    /\ pc' = "idle"
    /\ UNCHANGED <<config, createdOn, clock,
                   alias, ret, exitCode, currentStations, currentTs,
                   startNewRun, elapsed, loopVars, invocations, branch,
                   listFetches, attempted, startStations, diskAtStart, aliasWritten,
                   saves, timeUpAtCheck, faults>>

Next ==
    \/ StartInvocation
    \/ FetchListOk
    \/ FetchListFail
    \/ Tick
    \/ Process
    \/ LoopCheck
    \/ Delay
    \/ FetchDetailOk
    \/ FetchDetailFail
    \/ SaveState
    \/ DetermineExitCode
    \/ Publish
    \/ CleanupAndExit

Spec == Init /\ [][Next]_vars

\* ----------------------------------------------------------------- faults
\* a killed process loses its memory: the variables of the invocation, and
\* what is remembered of it, are as before the first invocation
Forget ==
    /\ ret' = "none" /\ exitCode' = 0 /\ currentStations' = None
    /\ currentTs' = None /\ startNewRun' = TRUE /\ elapsed' = 0
    /\ queue' = <<>> /\ idx' = 1 /\ processedCount' = 0
    /\ timeLimitReached' = FALSE /\ branch' = "none" /\ listFetches' = 0
    /\ attempted' = <<>> /\ startStations' = None
    /\ diskAtStart' = <<EmptyFiles, EmptyFiles, None>>
    /\ aliasWritten' = FALSE /\ saves' = {} /\ timeUpAtCheck' = FALSE
    /\ cleanupRan' = FALSE

\* the process is killed between two steps: nothing more is written
Kill ==
    /\ pc # "idle"
    /\ faults < MaxFaults
    /\ faults' = faults + 1
    /\ pc' = "idle"
    /\ lastExit' = Killed
    /\ Forget
    /\ UNCHANGED <<config, createdOn, clock, disk, invocations>>

\* the process is killed inside saveState: inside the write of the state file
\* (left truncated), between the two writes, or inside the write of the
\* output file (left truncated)
KillDuringSave ==
    /\ pc = "save"
    /\ faults < MaxFaults
    /\ faults' = faults + 1
    /\ \E point \in {"state", "between", "output"} :
        /\ stateFiles' =
            (currentTs :> IF point = "state" THEN CORRUPT
                          ELSE File(sortStationsById(currentStations[1])))
                @@ stateFiles
        /\ outputFiles' = IF point = "output"
                          THEN (currentTs :> CORRUPT) @@ outputFiles
                          ELSE outputFiles
    /\ pc' = "idle"
    /\ lastExit' = Killed
    /\ Forget
    /\ UNCHANGED <<config, createdOn, clock, alias, invocations>>

\* mutation: the write error is not caught in saveState; it ends processing
\* with exit code 1
SaveStateWriteError_m ==
    /\ pc = "save"
    /\ faults < MaxFaults
    /\ faults' = faults + 1
    /\ \E stateOk \in BOOLEAN : saveState(stateOk, FALSE)
    /\ pc' = "publish"
    /\ exitCode' = 1
    /\ UNCHANGED <<config, createdOn, clock,
                   alias, ret, currentTs, startNewRun,
                   elapsed, loopVars, invocations, lastExit, branch,
                   listFetches, attempted, startStations, diskAtStart, aliasWritten,
                   timeUpAtCheck, cleanupRan>>

\* saveState with a writeFile that throws: the catch logs it and the script
\* goes on
SaveStateWriteError ==
    /\ pc = "save"
    /\ faults < MaxFaults
    /\ faults' = faults + 1
    /\ \E stateOk \in BOOLEAN : saveState(stateOk, FALSE)
    /\ pc' = ret
    /\ UNCHANGED <<config, createdOn, clock,
                   alias, ret, exitCode, currentTs, startNewRun,
                   elapsed, loopVars, invocations, lastExit, branch,
                   listFetches, attempted, startStations, diskAtStart, aliasWritten,
                   timeUpAtCheck, cleanupRan>>

NextFaults ==
    \/ Next
    \/ Kill
    \/ KillDuringSave
    \/ SaveStateWriteError

InitFaults == InitWith(MaxFaultyInvocations)

SpecFaults == InitFaults /\ [][NextFaults]_vars

\* ------------------------------------------------- outcome of a large store
\* A complete store of total stations of which the first failed ones are
\* permanently failed, saved by the last checkpoint of a resumed invocation.
OutcomeStore(total, failed) ==
    [k \in 1..total |->
        IF k <= failed
        THEN [PendingStation(k) EXCEPT
                !.fetchStatus = "failed", !.fetchAttempts = MAX_RETRIES,
                !.lastAttemptTimestamp = Some(1), !.errorInfo = Some("error")]
        ELSE [PendingStation(k) EXCEPT
                !.fetchStatus = "success", !.fetchAttempts = 1,
                !.lastAttemptTimestamp = Some(1),
                !.details = Some(RawDetail(k))]]

\* main has left processStations with such a store, under the threshold of
\* the source (1) or the documented one (2)
InitOutcome ==
    \E total \in (MaxTotal - 2)..MaxTotal, failed \in 0..MaxFailed,
       threshold \in {DefaultThresholdPercent, DocumentedThresholdPercent} :
        LET store == OutcomeStore(total, failed)
            ts    == generateTimestamp(1)
        IN  /\ thresholdPercent = threshold
            /\ clock = 1
            /\ stateFiles = (ts :> File(store))
            /\ outputFiles = (ts :> File(createCleanedOutputData(store)))
            /\ alias = None
            /\ pc = "evaluate"
            /\ ret = "evaluate"
            /\ exitCode = 0
            /\ currentStations = Some(store)
            /\ currentTs = ts
            /\ startNewRun = FALSE
            /\ elapsed = 0
            /\ queue = <<>>
            /\ idx = 1
            /\ processedCount = 0
            /\ timeLimitReached = FALSE
            /\ invocations = 1
            /\ lastExit = NoExit
            /\ branch = "resume"
            /\ listFetches = 0
            /\ attempted = <<>>
            /\ startStations = Some(store)
            /\ diskAtStart = <<stateFiles, outputFiles, None>>
            /\ aliasWritten = FALSE
            /\ saves = {ts}
            /\ timeUpAtCheck = FALSE
            /\ cleanupRan = FALSE
            /\ faults = 0
            /\ createdOn = (ts :> 1)
            /\ invocationLimit = MaxInvocations
            /\ requestLimit = MAX_REQUESTS_PER_RUN
            /\ NoWorkflow

NextOutcome ==
    \/ DetermineExitCode
    \/ Publish
    \/ CleanupAndExit

SpecOutcome == InitOutcome /\ [][NextOutcome]_vars

\* ------------------------------------------------ a history already built
\* The disk three starts of the script leave behind when the third is killed:
\* a cycle with an empty listing completed on day 1, a cycle with one station
\* completed on day 3, and the fresh cycle of day 5 was killed inside the
\* first write of its state file, before cleanupOldFiles.
HistoryStore ==
    <<[PendingStation(NumStations) EXCEPT
            !.fetchStatus = "success", !.fetchAttempts = 1,
            !.lastAttemptTimestamp = Some(3),
            !.details = Some(RawDetail(NumStations))]>>

HistoryStateFiles ==
    (generateTimestamp(1) :> File(<<>>))
        @@ (generateTimestamp(3) :> File(HistoryStore))
        @@ (generateTimestamp(5) :> CORRUPT)

HistoryOutputFiles ==
    (generateTimestamp(1) :> File(<<>>))
        @@ (generateTimestamp(3) :> File(createCleanedOutputData(HistoryStore)))

HistoryCreatedOn ==
    (generateTimestamp(1) :> 1) @@ (generateTimestamp(3) :> 3)
        @@ (generateTimestamp(5) :> 5)

InitHistory ==
    /\ clock = 5
    /\ stateFiles = HistoryStateFiles
    /\ outputFiles = HistoryOutputFiles
    /\ alias = Some(File(createCleanedOutputData(HistoryStore)))
    /\ createdOn = HistoryCreatedOn
    /\ pc = "idle"
    /\ ret = "none"
    /\ exitCode = 0
    /\ currentStations = None
    /\ currentTs = None
    /\ startNewRun = TRUE
    /\ elapsed = 0
    /\ queue = <<>>
    /\ idx = 1
    /\ processedCount = 0
    /\ timeLimitReached = FALSE
    /\ invocations = 0
    /\ lastExit = Killed
    /\ branch = "none"
    /\ listFetches = 0
    /\ attempted = <<>>
    /\ startStations = None
    /\ diskAtStart = <<EmptyFiles, EmptyFiles, None>>
    /\ aliasWritten = FALSE
    /\ saves = {}
    /\ timeUpAtCheck = FALSE
    /\ cleanupRan = FALSE
    /\ faults = 1
    /\ thresholdPercent = PERMANENT_FAILURE_THRESHOLD_PERCENT
    /\ invocationLimit = MaxInvocations
    /\ requestLimit = MAX_REQUESTS_PER_RUN
    /\ NoWorkflow

\* the script is started again on such a disk, and nothing fails any more
SpecHistory == InitHistory /\ [][Next]_vars

\* --------------------------------------------- a long queue in the work loop
\* The disk after the first save of a fresh cycle whose listing held
\* LoopStations stations: every station pending. The request limit in force
\* lets one invocation work on all of them, as the source's 1000 does for a
\* listing of that size, so that the loop passes several periodic saves.
LoopStore == [k \in 1..LoopStations |-> PendingStation(k)]

InitLoop ==
    /\ clock = 1
    /\ stateFiles = (generateTimestamp(1) :> File(LoopStore))
    /\ outputFiles =
            (generateTimestamp(1) :> File(createCleanedOutputData(LoopStore)))
    /\ alias = None
    /\ createdOn = (generateTimestamp(1) :> 1)
    /\ pc = "idle"
    /\ ret = "none"
    /\ exitCode = 0
    /\ currentStations = None
    /\ currentTs = None
    /\ startNewRun = TRUE
    /\ elapsed = 0
    /\ queue = <<>>
    /\ idx = 1
    /\ processedCount = 0
    /\ timeLimitReached = FALSE
    /\ invocations = 0
    /\ lastExit = NoExit
    /\ branch = "none"
    /\ listFetches = 0
    /\ attempted = <<>>
    /\ startStations = None
    /\ diskAtStart = <<EmptyFiles, EmptyFiles, None>>
    /\ aliasWritten = FALSE
    /\ saves = {}
    /\ timeUpAtCheck = FALSE
    /\ cleanupRan = FALSE
    /\ faults = 0
    /\ thresholdPercent = PERMANENT_FAILURE_THRESHOLD_PERCENT
    /\ invocationLimit = MaxLoopInvocations
    /\ requestLimit = LoopStations
    /\ NoWorkflow

\* the script resumes that snapshot and may be killed at any point
NextLoop ==
    \/ StartInvocation
    \/ Tick
    \/ Process
    \/ LoopCheck
    \/ Delay
    \/ FetchDetailOk
    \/ FetchDetailFail
    \/ SaveState
    \/ DetermineExitCode
    \/ Publish
    \/ CleanupAndExit
    \/ Kill
    \/ KillDuringSave

SpecLoop == InitLoop /\ [][NextLoop]_vars

\* The same queue when writes of saveState fail and nothing kills the script.
NextWrite ==
    \/ StartInvocation
    \/ Tick
    \/ Process
    \/ LoopCheck
    \/ Delay
    \/ FetchDetailOk
    \/ FetchDetailFail
    \/ SaveState
    \/ DetermineExitCode
    \/ Publish
    \/ CleanupAndExit
    \/ SaveStateWriteError

SpecWrite == InitLoop /\ [][NextWrite]_vars

\* ------------------------------------------------- a cycle to its completion
\* The disk after the first save of a fresh cycle whose listing held
\* CycleStations stations with consecutive ids, the first of them 0 or 1. The
\* script is started again and again, nothing kills it, every write succeeds,
\* and time passes only while a fetch is awaited, so that every invocation
\* gets to its first fetch. Each invocation that makes an attempt uses up one
\* of the MAX_RETRIES attempts of some station, so CycleInvocations
\* invocations are enough for any outcomes of the fetches.
CycleInvocations == CycleStations * MAX_RETRIES

CycleStore(first) == [k \in 1..CycleStations |-> PendingStation(first + k - 1)]

InitCycle ==
    /\ clock = 1
    /\ \E first \in {0, 1} :
        /\ stateFiles = (generateTimestamp(1) :> File(CycleStore(first)))
        /\ outputFiles =
            (generateTimestamp(1) :> File(createCleanedOutputData(CycleStore(first))))
    /\ alias = None
    /\ createdOn = (generateTimestamp(1) :> 1)
    /\ pc = "idle"
    /\ ret = "none"
    /\ exitCode = 0
    /\ currentStations = None
    /\ currentTs = None
    /\ startNewRun = TRUE
    /\ elapsed = 0
    /\ queue = <<>>
    /\ idx = 1
    /\ processedCount = 0
    /\ timeLimitReached = FALSE
    /\ invocations = 0
    /\ lastExit = NoExit
    /\ branch = "none"
    /\ listFetches = 0
    /\ attempted = <<>>
    /\ startStations = None
    /\ diskAtStart = <<EmptyFiles, EmptyFiles, None>>
    /\ aliasWritten = FALSE
    /\ saves = {}
    /\ timeUpAtCheck = FALSE
    /\ cleanupRan = FALSE
    /\ faults = 0
    /\ thresholdPercent = PERMANENT_FAILURE_THRESHOLD_PERCENT
    /\ invocationLimit = CycleInvocations
    /\ requestLimit = MAX_REQUESTS_PER_RUN
    /\ NoWorkflow

\* time passes while a fetch is awaited
TickInFetch == pc = "fetch" /\ Tick

NextCycle ==
    \/ StartInvocation
    \/ TickInFetch
    \/ Process
    \/ LoopCheck
    \/ Delay
    \/ FetchDetailOk
    \/ FetchDetailFail
    \/ SaveState
    \/ DetermineExitCode
    \/ Publish
    \/ CleanupAndExit

\* the scheduler keeps starting the script and the script keeps running
SpecCycle == InitCycle /\ [][NextCycle]_vars /\ WF_vars(NextCycle)

\* ------------------------------------------------------------ the workflow
\* workflow.yaml checks the repository out and runs run_and_commit.sh. bash
\* runs that file from its first line: the body of lines 1-47 ends with
\* "exit 0", so the body of lines 49-94 is never reached.
program == <<clock, pc, ret, exitCode, currentStations, currentTs, startNewRun,
             elapsed, loopVars, history, createdOn, thresholdPercent,
             invocationLimit, requestLimit>>

\* line 4: set -e is in force
errexit == TRUE

\* line 30: git add state/ output/
addedPaths == {"state", "output"}

\* line 47: exit 0
finalExitStatus(nodeExit) == 0

\* the working tree, by path
WorkingTree == [state |-> stateFiles, output |-> outputFiles, stations |-> alias]

\* workflow.yaml, "Checkout repository": the working tree is the remote's
Checkout ==
    /\ shPc = "checkout"
    /\ stateFiles' = remote.state
    /\ outputFiles' = remote.output
    /\ alias' = remote.stations
    /\ shPc' = "start"
    /\ UNCHANGED <<program, launched, node_exit_code, remote, shExit>>

\* line 11: node index.js. The program runs when index.js is the program;
\* when there is no such file node exits 1 at once
RunNode ==
    /\ shPc = "start"
    /\ \E present \in BOOLEAN :
        IF present
        THEN /\ invocations < invocationLimit
             /\ launched' = invocations + 1
             /\ shPc' = "node"
             /\ UNCHANGED <<node_exit_code, shExit>>
        ELSE /\ node_exit_code' = 1
             /\ IF errexit
                THEN shPc' = "done" /\ shExit' = 1
                ELSE shPc' = "status" /\ UNCHANGED shExit
             /\ UNCHANGED launched
    /\ UNCHANGED <<program, disk, remote>>

\* the program, while the script waits for the node command
ProgramStep ==
    /\ shPc = "node"
    /\ pc = "idle" => invocations < launched
    /\ Next

\* node has exited: under set -e a non-zero status ends the script with it
NodeExited ==
    /\ shPc = "node"
    /\ pc = "idle"
    /\ invocations = launched
    /\ node_exit_code' = lastExit
    /\ IF errexit /\ lastExit # 0
       THEN shPc' = "done" /\ shExit' = lastExit
       ELSE shPc' = "status" /\ UNCHANGED shExit
    /\ UNCHANGED <<program, disk, launched, remote>>

\* line 19: git status --porcelain over the paths of the script
GitStatus ==
    /\ shPc = "status"
    /\ shPc' = IF \A path \in addedPaths : WorkingTree[path] = remote[path]
               THEN "exit" ELSE "commit"
    /\ UNCHANGED <<program, disk, launched, node_exit_code, remote, shExit>>

\* lines 26-41: git add, git commit, git push
CommitAndPush ==
    /\ shPc = "commit"
    /\ remote' = [path \in DOMAIN remote |->
                    IF path \in addedPaths THEN WorkingTree[path]
                    ELSE remote[path]]
    /\ shPc' = "exit"
    /\ UNCHANGED <<program, disk, launched, node_exit_code, shExit>>

\* the last line of the body
ScriptExit ==
    /\ shPc = "exit"
    /\ shExit' = finalExitStatus(node_exit_code)
    /\ shPc' = "done"
    /\ UNCHANGED <<program, disk, launched, node_exit_code, remote>>

\* workflow.yaml, schedule: the next run, on a new runner
NextRun ==
    /\ shPc = "done"
    /\ invocations < invocationLimit
    /\ shPc' = "checkout"
    /\ node_exit_code' = NoExit
    /\ shExit' = NoExit
    /\ UNCHANGED <<program, disk, launched, remote>>

InitWorkflow ==
    /\ InitProgram(MaxWorkflowRuns)
    /\ shPc = "checkout"
    /\ launched = 0
    /\ node_exit_code = NoExit
    /\ remote = [state |-> EmptyFiles, output |-> EmptyFiles, stations |-> None]
    /\ shExit = NoExit

NextWorkflow ==
    \/ Checkout
    \/ RunNode
    \/ ProgramStep
    \/ NodeExited
    \/ GitStatus
    \/ CommitAndPush
    \/ ScriptExit
    \/ NextRun

SpecWorkflow == InitWorkflow /\ [][NextWorkflow]_vars

\* ============================================================= properties
\* Notions of the specification, stated without the operators of the model.
Min(a, b) == IF a < b THEN a ELSE b

RetryEligible(e) ==
    e.fetchStatus = "pending"
        \/ (e.fetchStatus = "failed" /\ e.fetchAttempts < MAX_RETRIES)

PermanentlyFailed(e) == e.fetchStatus = "failed" /\ e.fetchAttempts >= MAX_RETRIES

NumPermanentlyFailed(store) ==
    Cardinality({k \in 1..Len(store) : PermanentlyFailed(store[k])})

NumRetryEligible(store) ==
    Cardinality({k \in 1..Len(store) : RetryEligible(store[k])})

RatioExceeds(store) ==
    Len(store) > 0 /\ NumPermanentlyFailed(store) * 100 > thresholdPercent * Len(store)

Complete(store) == \A k \in 1..Len(store) : ~ RetryEligible(store[k])

Healthy(store) == Complete(store) /\ ~ RatioExceeds(store)

\* the snapshot of a history that was created last
Newest(files) ==
    CHOOSE t \in DOMAIN files : \A u \in DOMAIN files : createdOn[u] <= createdOn[t]

\* how often id i was passed to fetchStationDetails in this invocation
Attempts(i) == Cardinality({k \in 1..Len(attempted) : attempted[k] = i})

\* the invocation ran to process.exit
Exited == pc = "idle" /\ lastExit \in {0, 1}

\* fetchStationList threw in this invocation
ListingFailed == listFetches = 1 /\ currentStations = None

\* the newest snapshot at the start of the invocation loads, and as what
NewestLoadsAtStart ==
    /\ invocations > 0
    /\ DOMAIN diskAtStart[1] # {}
    /\ diskAtStart[1][Newest(diskAtStart[1])].ok

NewestAtStart == diskAtStart[1][Newest(diskAtStart[1])].data

\* the disk of InitHistory, which the script reaches from an empty disk in
\* three invocations of which the third is killed
HistoryReached ==
    /\ pc = "idle"
    /\ lastExit = Killed
    /\ clock = 5
    /\ stateFiles = HistoryStateFiles
    /\ outputFiles = HistoryOutputFiles
    /\ alias = Some(File(createCleanedOutputData(HistoryStore)))
    /\ createdOn = HistoryCreatedOn

\* C1: when the newest snapshot loads and holds a retry-eligible entity, the
\* invocation resumes it: no listing fetch, no new snapshot, every entity
\* continues from its persisted record, and nothing but that snapshot's two
\* artifacts is written.
C1_ResumesNewestIncomplete ==
    (NewestLoadsAtStart /\ ~ Complete(NewestAtStart)) =>
        LET newest == Newest(diskAtStart[1])
            before == NewestAtStart
            now    == currentStations[1]
        IN  /\ branch = "resume"
            /\ listFetches = 0
            /\ currentTs = newest
            /\ saves \subseteq {newest}
            /\ DOMAIN stateFiles \subseteq DOMAIN diskAtStart[1]
            /\ DOMAIN outputFiles \subseteq DOMAIN diskAtStart[2] \cup {newest}
            /\ \A t \in DOMAIN stateFiles \ {newest} :
                    stateFiles[t] = diskAtStart[1][t]
            /\ \A t \in DOMAIN outputFiles \ {newest} :
                    outputFiles[t] = diskAtStart[2][t]
            /\ currentStations # None
            /\ Len(now) = Len(before)
            /\ \A k \in 1..Len(now) :
                /\ now[k].id = before[k].id
                /\ now[k].fetchAttempts =
                        before[k].fetchAttempts + Attempts(now[k].id)
                /\ Attempts(now[k].id) = 0 => now[k] = before[k]

C1_Witness ==
    /\ Exited
    /\ NewestLoadsAtStart
    /\ ~ Complete(NewestAtStart)
    /\ \E k \in 1..Len(NewestAtStart) : NewestAtStart[k].fetchStatus = "failed"
    /\ attempted # <<>>
    /\ saves = {Newest(diskAtStart[1])}

\* C2: when the newest snapshot is healthy, an age below the minimum interval
\* means no listing fetch, no detail fetch, the alias re-published, rotation
\* run and exit 0; an age at or above it means a fresh cycle.
C2_StalenessGate ==
    (NewestLoadsAtStart /\ Healthy(NewestAtStart)) =>
        LET newest == Newest(diskAtStart[1])
            age    == clock - createdOn[newest]
        IN  IF age < MIN_INTERVAL_DAYS_IF_COMPLETE
            THEN /\ branch = "skip"
                 /\ listFetches = 0
                 /\ attempted = <<>>
                 /\ saves = {}
                 /\ Exited =>
                        /\ lastExit = 0
                        /\ cleanupRan
                        /\ aliasWritten
                        /\ alias = Some(diskAtStart[2][newest])
            ELSE /\ branch = "fresh"
                 /\ currentTs # newest
                 /\ createdOn[currentTs] = clock
                 /\ Exited => listFetches = 1

C2_Witness ==
    /\ Exited
    /\ NewestLoadsAtStart
    /\ Healthy(NewestAtStart)
    /\ NewestAtStart # <<>>
    /\ clock - createdOn[Newest(diskAtStart[1])] = MIN_INTERVAL_DAYS_IF_COMPLETE - 1
    /\ aliasWritten

C4_ThresholdStrict ==
    pc \in {"publish", "cleanup", "idle"} =>
        LET store == currentStations[1]
        IN  /\ exitCode = 1 <=>
                NumPermanentlyFailed(store) * 100 > thresholdPercent * Len(store)
            /\ exitCode \in {0, 1}
            /\ aliasWritten => exitCode = 0
            /\ (pc = "idle" /\ exitCode = 0) => aliasWritten

C4_Witness ==
    /\ pc = "idle"
    /\ Len(currentStations[1]) = 100
    /\ thresholdPercent = 2
    /\ NumPermanentlyFailed(currentStations[1]) = 2
    /\ lastExit = 0
    /\ alias = Some(File(createCleanedOutputData(currentStations[1])))

\* the store the loop of this invocation started from, and its queue
LoopStarted == startStations # None /\ pc \notin {"fetchList", "process"}
    /\ branch # "skip" /\ ~ ListingFailed

\* C5: no invocation makes more than MAX_REQUESTS_PER_RUN detail fetches;
\* when more entities than that are retry-eligible and the time limit does
\* not stop the loop, exactly MAX_REQUESTS_PER_RUN distinct entities are
\* attempted, every other entity is left as it was, the store stays
\* incomplete, and the exit status is 0 unless the ratio exceeds the threshold.
C5_RequestBudget ==
    /\ Len(attempted) <= MAX_REQUESTS_PER_RUN
    /\ (/\ Exited
        /\ LoopStarted
        /\ NumRetryEligible(startStations[1]) > MAX_REQUESTS_PER_RUN
        /\ ~ timeUpAtCheck) =>
            LET before == startStations[1]
                after  == currentStations[1]
            IN  /\ Len(attempted) = MAX_REQUESTS_PER_RUN
                /\ \A a, b \in 1..Len(attempted) :
                        a # b => attempted[a] # attempted[b]
                /\ Len(after) = Len(before)
                /\ \A k \in 1..Len(before) :
                    IF Attempts(before[k].id) = 0
                    THEN after[k] = before[k]
                    ELSE /\ RetryEligible(before[k])
                         /\ after[k].fetchAttempts = before[k].fetchAttempts + 1
                /\ ~ Complete(after)
                /\ ~ RatioExceeds(after) => lastExit = 0

\* C6: the time limit is tested at the head of each loop iteration only: an
\* iteration entered with the limit reached starts no attempt, an attempt in
\* flight when the limit is reached is recorded and saved, nothing else stops
\* the loop before the end of the queue (an entry the loop skips for its id
\* is passed over, not fetched), and stopping on the limit gives exit status
\* 0 unless the ratio exceeds the threshold.
C6_AtLoopHead ==
    (pc = "loop" /\ idx <= Len(queue) /\ elapsed >= MAX_DURATION_MS) =>
        (pc' \notin {"delay", "fetch"} /\ attempted' = attempted)

C6_AtExit ==
    (Exited /\ LoopStarted) =>
        LET store == currentStations[1]
            fetchable == SelectSeq(queue, LAMBDA i : ~ isFalsy(i))
        IN  /\ attempted = SubSeq(fetchable, 1, Len(attempted))
            /\ ~ timeUpAtCheck => attempted = fetchable
            /\ timeUpAtCheck => (elapsed >= MAX_DURATION_MS /\ idx <= Len(queue))
            /\ \A k \in 1..Len(store) :
                    store[k].fetchAttempts =
                        startStations[1][k].fetchAttempts + Attempts(store[k].id)
            /\ stateFiles[currentTs] = File(store)
            /\ (timeUpAtCheck /\ ~ RatioExceeds(store)) => lastExit = 0

C6_TimeBudget == [](C6_AtExit /\ (pc = "fetch" => ~ timeLimitReached))
                    /\ [][C6_AtLoopHead]_vars

C6_Witness ==
    /\ Exited
    /\ LoopStarted
    /\ timeUpAtCheck
    /\ attempted # <<>>
    /\ attempted # queue
    /\ lastExit = 0
    /\ currentStations[1][findIndex(currentStations[1], attempted[1])].fetchStatus
            = "success"

\* the clean projection of a store: a succeeded entity normalized, any other
\* as a placeholder
Projection(store) ==
    [k \in 1..Len(store) |->
        IF store[k].fetchStatus = "success"
        THEN [id |-> store[k].id, data |-> Some([normalized |-> store[k].id]),
              basic |-> None]
        ELSE [id |-> store[k].id, data |-> None,
              basic |-> Some([lat |-> 40 + store[k].id, lng |-> 30 + store[k].id,
                              sockets |-> IF store[k].id % 2 = 0 THEN <<>>
                                          ELSE <<[id |-> 10 * store[k].id + 1],
                                                 [id |-> 10 * store[k].id + 2]>>])]]

HealthySnapshots ==
    {t \in DOMAIN stateFiles : stateFiles[t].ok /\ Healthy(stateFiles[t].data)}

\* C7: between invocations, a published alias is the output artifact of the
\* newest healthy snapshot in history, and shows no placeholder for an entity
\* which the state of that snapshot records as succeeded.
C7_AliasIsNewestHealthy ==
    (pc = "idle" /\ alias # None) =>
        \E t \in HealthySnapshots :
            /\ \A u \in HealthySnapshots : createdOn[u] <= createdOn[t]
            /\ t \in DOMAIN outputFiles
            /\ alias = Some(outputFiles[t])
            /\ alias[1].ok
            /\ Len(alias[1].data) = Len(stateFiles[t].data)
            /\ \A k \in 1..Len(stateFiles[t].data) :
                    stateFiles[t].data[k].fetchStatus = "success"
                        => alias[1].data[k].data # None

\* C8: an invocation whose final store exceeds the threshold exits with 1 and
\* leaves the alias unwritten, while the state and output artifacts of its
\* snapshot hold the final store and rotation has run.
C8_OverThreshold ==
    (Exited /\ currentStations # None /\ RatioExceeds(currentStations[1])) =>
        /\ lastExit = 1
        /\ ~ aliasWritten
        /\ alias = diskAtStart[3]
        /\ currentTs \in DOMAIN stateFiles \cap DOMAIN outputFiles
        /\ stateFiles[currentTs] = File(currentStations[1])
        /\ outputFiles[currentTs] = File(Projection(currentStations[1]))
        /\ cleanupRan
        /\ Cardinality(DOMAIN stateFiles) <= MAX_HISTORY_FILES

C8_Witness ==
    /\ Exited
    /\ currentStations # None
    /\ RatioExceeds(currentStations[1])
    /\ attempted # <<>>
    /\ alias # None
    /\ lastExit = 1

\* the snapshots that existed when cleanupOldFiles ran
BeforeCleanup == DOMAIN diskAtStart[1] \cup saves

\* C9: after rotation exactly min(MAX_HISTORY_FILES, total) snapshots remain,
\* each of them created after every deleted one, and a deleted snapshot has
\* neither its state nor its output artifact left.
C9_Rotation ==
    (pc = "idle" /\ cleanupRan) =>
        LET kept == DOMAIN stateFiles
            gone == BeforeCleanup \ kept
        IN  /\ kept \subseteq BeforeCleanup
            /\ Cardinality(kept) =
                    Min(MAX_HISTORY_FILES, Cardinality(BeforeCleanup))
            /\ \A t \in kept, u \in gone : createdOn[u] < createdOn[t]
            /\ \A u \in gone : u \notin DOMAIN outputFiles
            /\ DOMAIN outputFiles \subseteq kept

C9_Witness ==
    /\ pc = "idle"
    /\ cleanupRan
    /\ \E u \in BeforeCleanup \ DOMAIN stateFiles :
        /\ u \in DOMAIN diskAtStart[2]
        /\ createdOn[u] <= 2
    /\ \E t \in DOMAIN stateFiles : createdOn[t] >= 3

\* C10 as stated: a failed listing fetch gives exit status 1 and leaves the
\* state files, the output files and the alias exactly as they were.
C10_HistoryUntouched ==
    (Exited /\ ListingFailed) =>
        /\ lastExit = 1
        /\ stateFiles = diskAtStart[1]
        /\ outputFiles = diskAtStart[2]
        /\ alias = diskAtStart[3]

\* C10 amended: a failed listing fetch gives exit status 1, writes no state
\* file, no output file and not the alias, and removes nothing but what
\* rotation removes: snapshots older than the newest MAX_HISTORY_FILES.
C10_ListingFailure ==
    (Exited /\ ListingFailed) =>
        /\ lastExit = 1
        /\ saves = {}
        /\ ~ aliasWritten
        /\ alias = diskAtStart[3]
        /\ cleanupRan
        /\ \A t \in DOMAIN stateFiles :
                t \in DOMAIN diskAtStart[1] /\ stateFiles[t] = diskAtStart[1][t]
        /\ \A t \in DOMAIN outputFiles :
                t \in DOMAIN diskAtStart[2] /\ outputFiles[t] = diskAtStart[2][t]
        /\ \A u \in DOMAIN diskAtStart[1] \ DOMAIN stateFiles :
                /\ u \notin DOMAIN outputFiles
                /\ Cardinality({t \in DOMAIN diskAtStart[1] :
                        createdOn[t] > createdOn[u]}) >= MAX_HISTORY_FILES
        /\ \A u \in DOMAIN diskAtStart[2] \ DOMAIN outputFiles :
                u \in DOMAIN diskAtStart[1] \ DOMAIN stateFiles

C10_Witness ==
    /\ Exited
    /\ ListingFailed
    /\ lastExit = 1
    /\ DOMAIN diskAtStart[1] # {}
    /\ HealthySnapshots # {}
    /\ alias # None

\* C11: in one invocation no station is passed to fetchStationDetails more
\* than once; a failed fetch adds one attempt and leaves the station failed,
\* to be tried again by a later invocation only.
C11_OneAttemptPerInvocation ==
    /\ \A i \in Ids : Attempts(i) <= 1
    /\ (currentStations # None /\ startStations # None /\ pc # "fetchList") =>
            \A k \in 1..Len(currentStations[1]) :
                LET now    == currentStations[1][k]
                    before == startStations[1][k]
                IN  now.fetchAttempts - before.fetchAttempts = Attempts(now.id)

C11_Witness ==
    /\ Exited
    /\ LoopStarted
    /\ Len(attempted) = MAX_REQUESTS_PER_RUN
    /\ \E k \in 1..Len(currentStations[1]) :
            LET now == currentStations[1][k]
            IN  /\ Attempts(now.id) = 1
                /\ now.fetchStatus = "failed"
                /\ now.fetchAttempts = 1
                /\ RetryEligible(now)
    /\ stateFiles[currentTs] = File(currentStations[1])

\* C12: a fresh cycle makes exactly one listing fetch, and the store it
\* builds holds, for every listed station, the listing's id, lat, lng and
\* sockets with fetchStatus pending, fetchAttempts 0 and lastAttemptTimestamp,
\* details and errorInfo null, and no other field; nothing of the snapshots
\* on disk at the start of the invocation is in it.
C12_FreshStore ==
    (branch = "fresh" /\ pc # "fetchList") =>
        /\ listFetches = 1
        /\ ~ ListingFailed =>
              \A k \in 1..Len(startStations[1]) :
                LET r == startStations[1][k]
                IN  /\ DOMAIN r = {"id", "lat", "lng", "sockets", "fetchStatus",
                                   "fetchAttempts", "lastAttemptTimestamp",
                                   "details", "errorInfo"}
                    /\ r.lat = ListedStation(r.id).lat
                    /\ r.lng = ListedStation(r.id).lng
                    /\ r.sockets = ListedStation(r.id).sockets
                    /\ r.fetchStatus = "pending"
                    /\ r.fetchAttempts = 0
                    /\ r.lastAttemptTimestamp = None
                    /\ r.details = None
                    /\ r.errorInfo = None

\* a fresh cycle has just fetched a listing that holds a station the newest
\* snapshot on disk records as succeeded
C12_Witness ==
    /\ branch = "fresh"
    /\ pc = "save"
    /\ ret = "process"
    /\ listFetches = 1
    /\ NewestLoadsAtStart
    /\ \E k \in 1..Len(NewestAtStart) :
            /\ NewestAtStart[k].fetchStatus = "success"
            /\ findIndex(currentStations[1], NewestAtStart[k].id) # 0
            /\ currentStations[1][findIndex(currentStations[1],
                    NewestAtStart[k].id)].sockets # <<>>

\* the newest state file on disk at the start of the invocation could not be
\* read or parsed
NewestCorruptAtStart ==
    /\ invocations > 0
    /\ branch # "none"
    /\ DOMAIN diskAtStart[1] # {}
    /\ ~ diskAtStart[1][Newest(diskAtStart[1])].ok

\* C13: when the newest state file cannot be read or parsed, the invocation
\* starts a fresh cycle under a new timestamp, fetches the listing, saves the
\* new snapshot when the listing arrives, and exits 1 exactly when the
\* listing fetch failed or the permanent failures of the new store exceed
\* the threshold.
C13_CorruptNewestStartsFresh ==
    NewestCorruptAtStart =>
        /\ branch = "fresh"
        /\ currentTs # None
        /\ currentTs \notin DOMAIN diskAtStart[1]
        /\ pc # "fetchList" => listFetches = 1
        /\ (pc \in {"process", "loop", "delay", "fetch", "evaluate", "publish"}
                /\ ~ ListingFailed) =>
              /\ currentTs \in DOMAIN stateFiles
              /\ stateFiles[currentTs].ok
        /\ Exited =>
              (lastExit = 1) =
                (ListingFailed \/ RatioExceeds(currentStations[1]))

\* an invocation that found the newest state file unreadable has run a fresh
\* cycle to its end, fetched details and exited 0 with the new snapshot saved
C13_Witness ==
    /\ NewestCorruptAtStart
    /\ Exited
    /\ lastExit = 0
    /\ attempted # <<>>
    /\ currentTs \in DOMAIN stateFiles
    /\ stateFiles[currentTs] = File(currentStations[1])

\* the invocation resumed a snapshot, has fetched no station detail, and has
\* written the snapshot again
ResavedWithoutWork ==
    /\ branch = "resume"
    /\ attempted = <<>>
    /\ currentTs # None
    /\ currentTs \in saves

\* C14: when an invocation resumes a snapshot and fetches no station detail
\* (the time limit is reached before the first station, or the snapshot is
\* complete and only re-evaluated), the state file and the output file it
\* writes are equal to those on disk before the invocation.
C14_IdempotentCheckpoint ==
    ResavedWithoutWork =>
        /\ stateFiles[currentTs] = diskAtStart[1][currentTs]
        /\ currentTs \in DOMAIN outputFiles
        /\ currentTs \in DOMAIN diskAtStart[2]
        /\ outputFiles[currentTs] = diskAtStart[2][currentTs]

\* the fetch attempts of the running invocation that the state file does not
\* hold: all of them when the file cannot be read, else those whose record
\* in the file still has the fetchAttempts the invocation started from
LostAttempts(file) ==
    IF ~ file.ok THEN Len(attempted)
    ELSE Cardinality({k \in 1..Len(attempted) :
            LET onDisk == file.data[findIndex(file.data, attempted[k])]
                before == startStations[1][findIndex(startStations[1],
                                                     attempted[k])]
            IN  onDisk.fetchAttempts = before.fetchAttempts})

\* C15: when the process is killed, at most SAVE_EVERY of the detail fetches
\* this invocation completed are missing from the state file on disk.
C15_LossBound ==
    [][(faults' = faults + 1 /\ lastExit' = Killed /\ attempted # <<>>)
            => LostAttempts(stateFiles'[currentTs]) <= SAVE_EVERY]_vars

\* the state file new keeps what the state file old records: for every
\* station old records a fetch attempt of, new can be read and holds the
\* station with no fewer fetchAttempts and, if old has it succeeded, still
\* succeeded
KeepsProgress(old, new) ==
    \A k \in 1..Len(old.data) :
        old.data[k].fetchAttempts > 0 =>
            /\ new.ok
            /\ LET pos == findIndex(new.data, old.data[k].id)
               IN  /\ pos # 0
                   /\ new.data[pos].fetchAttempts >= old.data[k].fetchAttempts
                   /\ old.data[k].fetchStatus = "success"
                           => new.data[pos].fetchStatus = "success"

\* C16: no step (checkpoint, kill, resumed invocation) takes recorded progress
\* back: in a state file that stays on disk no station's fetchAttempts gets
\* lower and no succeeded station becomes pending or failed; and a fresh
\* cycle is not started over a newest snapshot that records an attempt and
\* is not complete.
C16_NoRollback ==
    [][/\ \A t \in DOMAIN stateFiles \cap DOMAIN stateFiles' :
            stateFiles[t].ok => KeepsProgress(stateFiles[t], stateFiles'[t])
       /\ (branch' = "fresh" /\ pc = "idle" /\ stateFiles # EmptyFiles)
            => LET newest == stateFiles[Newest(stateFiles)]
               IN  (newest.ok /\ \E k \in 1..Len(newest.data) :
                                    newest.data[k].fetchAttempts > 0)
                        => Complete(newest.data)
      ]_vars

\* C17: stations.json is created or written only while some state file on
\* disk holds a store that is complete with its permanent failure ratio
\* within the threshold; until then it is absent.
C17_AliasNeedsHealthy ==
    [][(alias' # alias \/ (aliasWritten' /\ ~ aliasWritten))
            => HealthySnapshots # {}]_vars

\* invocations have fetched details and exited 0, and stations.json is still
\* absent because no snapshot on disk is healthy
C17_Witness ==
    /\ Exited
    /\ lastExit = 0
    /\ invocations >= 2
    /\ attempted # <<>>
    /\ DOMAIN stateFiles # {}
    /\ HealthySnapshots = {}
    /\ alias = None

\* C18: with the threshold the source ships, an invocation whose final store
\* has at most 2% permanently failed stations (2 of 100) exits 0.
C18_DefaultThresholdTwoPercent ==
    (Exited /\ thresholdPercent = DefaultThresholdPercent
        /\ currentStations # None
        /\ NumPermanentlyFailed(currentStations[1]) * 100
                <= DocumentedThresholdPercent * Len(currentStations[1]))
      => lastExit = 0

\* C19: when run_and_commit.sh has ended, the remote repository holds the
\* state/, output/ and stations.json of the working tree, whatever the exit
\* status of the node command was, and the script's exit status is that
\* status.
C19_CommitsAndPropagates ==
    shPc = "done" =>
        /\ shExit = node_exit_code
        /\ \A path \in DOMAIN remote : remote[path] = WorkingTree[path]

\* fetchAttempts is 0 exactly for the pending stations of a store
PendingIffUntried(store) ==
    \A k \in 1..Len(store) :
        (store[k].fetchAttempts = 0) = (store[k].fetchStatus = "pending")

\* C20: in the store in memory and in every state file that can be read, a
\* station has fetchAttempts 0 if and only if its fetchStatus is pending.
C20_PendingIffNoAttempts ==
    /\ currentStations # None => PendingIffUntried(currentStations[1])
    /\ \A t \in DOMAIN stateFiles :
            stateFiles[t].ok => PendingIffUntried(stateFiles[t].data)

\* the store in memory, saved to disk, holds a pending station, a failed one
\* and a succeeded one
C20_Witness ==
    /\ currentStations # None
    /\ currentTs # None
    /\ currentTs \in DOMAIN stateFiles
    /\ stateFiles[currentTs] = File(currentStations[1])
    /\ attempted # <<>>
    /\ \E a, b, c \in 1..Len(currentStations[1]) :
            /\ currentStations[1][a].fetchStatus = "pending"
            /\ currentStations[1][b].fetchStatus = "failed"
            /\ currentStations[1][c].fetchStatus = "success"

\* the stores of a state: the one in memory and every state file that can
\* be read
Stores ==
    (IF currentStations # None THEN {currentStations[1]} ELSE {})
        \cup {stateFiles[t].data : t \in {u \in DOMAIN stateFiles : stateFiles[u].ok}}

\* C21 as stated: for every station, fetchAttempts = 0, fetchStatus pending,
\* details null and lastAttemptTimestamp null are all equivalent.
C21_FourWayEquivalence ==
    \A store \in Stores : \A k \in 1..Len(store) :
        LET e == store[k]
        IN  /\ (e.fetchAttempts = 0) = (e.fetchStatus = "pending")
            /\ (e.fetchStatus = "pending") = (e.details = None)
            /\ (e.details = None) = (e.lastAttemptTimestamp = None)

\* C21 amended: fetchAttempts = 0, fetchStatus pending and
\* lastAttemptTimestamp null are equivalent, and each implies details null;
\* details is null also for a failed station, which has fetchAttempts > 0.
C21_ThreeWayEquivalence ==
    \A store \in Stores : \A k \in 1..Len(store) :
        LET e == store[k]
        IN  /\ (e.fetchAttempts = 0) = (e.fetchStatus = "pending")
            /\ (e.fetchStatus = "pending") = (e.lastAttemptTimestamp = None)
            /\ e.fetchStatus = "pending" => e.details = None
            /\ e.fetchStatus = "failed" =>
                    e.details = None /\ e.fetchAttempts > 0

\* a saved store holds a pending station and a station that failed once
C21_Witness ==
    /\ currentStations # None
    /\ currentTs # None
    /\ currentTs \in DOMAIN stateFiles
    /\ stateFiles[currentTs] = File(currentStations[1])
    /\ \E a, b \in 1..Len(currentStations[1]) :
            /\ currentStations[1][a].fetchStatus = "pending"
            /\ currentStations[1][b].fetchStatus = "failed"
            /\ currentStations[1][b].fetchAttempts = 1
            /\ currentStations[1][b].details = None
            /\ currentStations[1][b].lastAttemptTimestamp # None

\* the record of a station does not go back from before to after
NoStepBack(before, after) ==
    /\ after.fetchAttempts >= before.fetchAttempts
    /\ before.fetchStatus = "success" => after.fetchStatus = "success"

\* C22: while the store in memory is that of the same snapshot, through
\* fetches, saves, the end of an invocation and the load of the next one, no
\* step lowers a station's fetchAttempts or takes a succeeded station to
\* pending or failed.
C22_MonotoneEntities ==
    [][(currentStations # None /\ currentStations' # None
            /\ currentTs # None /\ currentTs' = currentTs
            /\ pc # "fetchList")
        => \A k \in 1..Len(currentStations[1]) :
              LET pos == findIndex(currentStations'[1], currentStations[1][k].id)
              IN  /\ pos # 0
                  /\ NoStepBack(currentStations[1][k], currentStations'[1][pos])
      ]_vars

\* a station that failed in an earlier invocation of the cycle has now
\* succeeded, at its second attempt
C22_Witness ==
    /\ branch = "resume"
    /\ currentStations # None
    /\ \E k \in 1..Len(currentStations[1]) :
            /\ currentStations[1][k].fetchStatus = "success"
            /\ currentStations[1][k].fetchAttempts = 2
            /\ startStations[1][k].fetchStatus = "failed"
            /\ startStations[1][k].fetchAttempts = 1

\* C23: isStateComplete is true of a store exactly when every station is
\* success or failed with fetchAttempts >= MAX_RETRIES, and the exit code
\* main derives after processing is the one of the store as processing left
\* it, not of the store the invocation started with.
C23_CompleteIffAllSettled ==
    /\ \A store \in Stores :
            isStateComplete(store)
                = (\A k \in 1..Len(store) :
                        \/ store[k].fetchStatus = "success"
                        \/ /\ store[k].fetchStatus = "failed"
                           /\ store[k].fetchAttempts >= MAX_RETRIES)
    /\ (pc = "publish" /\ currentStations # None)
            => exitCode = IF RatioExceeds(currentStations[1]) THEN 1 ELSE 0

\* a resumed invocation used up the last retry of a station: the store it
\* loaded was incomplete and gave exit code 0, the store after processing is
\* complete and gives exit code 1
C23_Witness ==
    /\ pc = "publish"
    /\ branch = "resume"
    /\ currentStations # None /\ startStations # None
    /\ attempted # <<>>
    /\ ~ isStateComplete(startStations[1])
    /\ isStateComplete(currentStations[1])
    /\ exitCodeFor(startStations[1], thresholdPercent) = 0
    /\ exitCode = 1

\* the record after is what one fetch attempt at time now makes of the
\* record before: one more attempt, the time of the attempt, and either
\* success with the payload and no error, or failed with the error message
\* and still no details
OneAttempt(before, after, now) ==
    /\ after.fetchAttempts = before.fetchAttempts + 1
    /\ after.lastAttemptTimestamp = Some(now)
    /\ \/ /\ after.fetchStatus = "success"
          /\ after.details = Some(RawDetail(before.id))
          /\ after.errorInfo = None
       \/ /\ after.fetchStatus = "failed"
          /\ after.errorInfo = Some("error")
          /\ after.details = None
    /\ after.id = before.id /\ after.lat = before.lat
    /\ after.lng = before.lng /\ after.sockets = before.sockets

\* C24: a step that passes a station to fetchStationDetails changes the
\* record of that station by exactly one attempt (fetchAttempts + 1,
\* lastAttemptTimestamp set; success with the payload and errorInfo null when
\* the fetch succeeded, failed with the error message and details still null
\* when it failed) and leaves every other record as it was.
C24_OneTransitionPerAttempt ==
    [][(pc = "fetch" /\ Len(attempted') = Len(attempted) + 1)
        => LET before == currentStations[1]
               after  == currentStations'[1]
           IN  /\ Len(after) = Len(before)
               /\ \A k \in 1..Len(before) :
                     IF before[k].id = queue[idx]
                     THEN /\ OneAttempt(before[k], after[k], clock)
                          /\ FetchDetailOk => after[k].fetchStatus = "success"
                          /\ FetchDetailFail => after[k].fetchStatus = "failed"
                     ELSE after[k] = before[k]
      ]_vars

\* one invocation has fetched two stations, one with success and one with a
\* failure, and a third station is as the invocation found it
C24_Witness ==
    /\ currentStations # None /\ startStations # None
    /\ Len(attempted) = 2 /\ attempted[1] # attempted[2]
    /\ Len(currentStations[1]) = 3 /\ Len(startStations[1]) = 3
    /\ \E a, b, c \in 1..3 :
            /\ currentStations[1][a].id = attempted[1]
            /\ currentStations[1][b].id = attempted[2]
            /\ currentStations[1][a].fetchStatus = "success"
            /\ currentStations[1][b].fetchStatus = "failed"
            /\ c \notin {a, b}
            /\ \E d \in 1..3 : startStations[1][d] = currentStations[1][c]

\* C25: in every store, in memory or in a readable state file, details is
\* present exactly for the stations whose fetchStatus is success, and every
\* such station has errorInfo null.
C25_DetailIffSucceeded ==
    \A store \in Stores : \A k \in 1..Len(store) :
        /\ (store[k].details # None) = (store[k].fetchStatus = "success")
        /\ store[k].fetchStatus = "success" => store[k].errorInfo = None

\* a checkpoint on disk holds a station that failed once and then succeeded,
\* next to a station without details
C25_Witness ==
    /\ currentTs # None
    /\ currentTs \in DOMAIN stateFiles
    /\ stateFiles[currentTs].ok
    /\ \E a, b \in 1..Len(stateFiles[currentTs].data) :
            /\ stateFiles[currentTs].data[a].fetchStatus = "success"
            /\ stateFiles[currentTs].data[a].fetchAttempts = 2
            /\ stateFiles[currentTs].data[a].details # None
            /\ stateFiles[currentTs].data[b].fetchStatus # "success"
            /\ stateFiles[currentTs].data[b].details = None

\* the station is success or failed with no retry left
Settled(e) == e.fetchStatus = "success" \/ PermanentlyFailed(e)

\* C26: a step that passes a station to fetchStationDetails and updates its
\* record does so only for a station that is at that moment pending or
\* failed with fetchAttempts < MAX_RETRIES; and while the store in memory is
\* that of the same snapshot, through the invocations of the cycle, the
\* record of a station that is success or permanently failed is never
\* changed again.
C26_OnlyEligibleFetched ==
    [][/\ (pc = "fetch" /\ Len(attempted') = Len(attempted) + 1)
            => \E k \in 1..Len(currentStations[1]) :
                    /\ currentStations[1][k].id = queue[idx]
                    /\ RetryEligible(currentStations[1][k])
       /\ (currentStations # None /\ currentStations' # None
                /\ currentTs # None /\ currentTs' = currentTs
                /\ pc # "fetchList")
            => \A k \in 1..Len(currentStations[1]) :
                    Settled(currentStations[1][k])
                        => \E j \in 1..Len(currentStations'[1]) :
                                currentStations'[1][j] = currentStations[1][k]
      ]_vars

\* a resumed invocation fetches a station that failed once, while the store
\* holds a succeeded station it loaded and has left alone
C26_Witness ==
    /\ pc = "fetch"
    /\ branch = "resume"
    /\ currentStations # None /\ startStations # None
    /\ \E a, b \in 1..Len(currentStations[1]) :
            /\ currentStations[1][a].id = queue[idx]
            /\ currentStations[1][a].fetchStatus = "failed"
            /\ currentStations[1][a].fetchAttempts < MAX_RETRIES
            /\ currentStations[1][b].fetchStatus = "success"
            /\ \E d \in 1..Len(startStations[1]) :
                    startStations[1][d] = currentStations[1][b]

\* the ids of a store
IdSet(store) == {store[k].id : k \in 1..Len(store)}

DistinctIds(store) ==
    \A a, b \in 1..Len(store) : a # b => store[a].id # store[b].id

\* C27: in every store the ids are pairwise distinct; the store an invocation
\* works on has the ids of the store it created from the listing or loaded,
\* and the ids of the state file of its snapshot once that file is written;
\* and no step changes the ids of a readable state file or of the store in
\* memory while it is that of the same snapshot.
C27_FixedEntitySet ==
    /\ [](\A store \in Stores : DistinctIds(store))
    /\ []((currentStations # None /\ startStations # None /\ pc # "fetchList")
            => IdSet(currentStations[1]) = IdSet(startStations[1]))
    /\ []((currentStations # None /\ currentTs # None /\ pc # "fetchList"
                /\ currentTs \in DOMAIN stateFiles /\ stateFiles[currentTs].ok)
            => IdSet(stateFiles[currentTs].data) = IdSet(currentStations[1]))
    /\ [][/\ \A t \in DOMAIN stateFiles \cap DOMAIN stateFiles' :
                (stateFiles[t].ok /\ stateFiles'[t].ok)
                    => /\ IdSet(stateFiles'[t].data) = IdSet(stateFiles[t].data)
                       /\ Len(stateFiles'[t].data) = Len(stateFiles[t].data)
          /\ (currentStations # None /\ currentStations' # None
                    /\ currentTs # None /\ currentTs' = currentTs
                    /\ pc # "fetchList")
                => /\ IdSet(currentStations'[1]) = IdSet(currentStations[1])
                   /\ Len(currentStations'[1]) = Len(currentStations[1])
         ]_vars

\* a resumed invocation has fetched a station and saved: the state file of
\* the snapshot, written by an earlier invocation from a listing of three
\* stations, has been rewritten with other records
C27_Witness ==
    /\ branch = "resume"
    /\ pc = "loop"
    /\ attempted # <<>>
    /\ currentStations # None /\ startStations # None
    /\ Len(startStations[1]) = 3
    /\ currentTs \in DOMAIN stateFiles
    /\ currentTs \in DOMAIN diskAtStart[1]
    /\ stateFiles[currentTs] = File(currentStations[1])
    /\ stateFiles[currentTs] # diskAtStart[1][currentTs]

\* the snapshots of the history that a newer snapshot has superseded: the
\* timestamps with a state file of a later name in the directory
Superseded ==
    {t \in DOMAIN stateFiles \cup DOMAIN outputFiles :
        \E u \in DOMAIN stateFiles : localeCompareLess(t, u)}

\* C28: once the history holds a newer snapshot, no step writes the state
\* file or the output file of an older one: each is left as it is, or is
\* deleted, and deleted only by cleanupOldFiles.
C28_SupersededNeverWritten ==
    [][\A t \in Superseded :
            /\ t \in DOMAIN stateFiles =>
                    IF t \in DOMAIN stateFiles'
                    THEN stateFiles'[t] = stateFiles[t]
                    ELSE pc = "cleanup"
            /\ t \in DOMAIN outputFiles =>
                    IF t \in DOMAIN outputFiles'
                    THEN outputFiles'[t] = outputFiles[t]
                    ELSE pc = "cleanup"
      ]_vars

\* an invocation created a snapshot and checkpointed progress into it, the
\* rotation deleted an older snapshot, and another older snapshot is on disk
\* as the invocation found it
C28_Witness ==
    /\ pc = "idle" /\ cleanupRan
    /\ branch = "fresh" /\ attempted # <<>>
    /\ currentTs \in DOMAIN stateFiles
    /\ currentTs \notin DOMAIN diskAtStart[1]
    /\ \E gone \in DOMAIN diskAtStart[1] : gone \notin DOMAIN stateFiles
    /\ \E t \in Superseded :
            /\ t \in DOMAIN diskAtStart[1] /\ t \in DOMAIN stateFiles
            /\ stateFiles[t] = diskAtStart[1][t]
            /\ t \in DOMAIN diskAtStart[2] /\ t \in DOMAIN outputFiles
            /\ outputFiles[t] = diskAtStart[2][t]

\* the store in memory holds every attempt of this invocation: each station
\* has the attempts it started with plus the fetches made for it since
KeepsEveryAttempt ==
    \A k \in 1..Len(currentStations[1]) :
        \E j \in 1..Len(startStations[1]) :
            /\ startStations[1][j].id = currentStations[1][k].id
            /\ currentStations[1][k].fetchAttempts
                    = startStations[1][j].fetchAttempts
                        + Attempts(currentStations[1][k].id)

\* the state file and the output file of the snapshot hold the store in memory
Persisted ==
    /\ currentTs \in DOMAIN stateFiles
    /\ stateFiles[currentTs] = File(currentStations[1])
    /\ currentTs \in DOMAIN outputFiles
    /\ outputFiles[currentTs] = File(createCleanedOutputData(currentStations[1]))

\* C29: a saveState whose write fails goes on where a successful one would,
\* with the exit code and the records in memory untouched; the store in
\* memory holds every attempt made, whatever writes failed; and a saveState
\* whose writes succeed leaves the state and output files equal to the store
\* in memory, the progress of failed checkpoints included.
C29_WriteFailureTolerated ==
    /\ []((currentStations # None /\ startStations # None
                /\ pc \notin {"idle", "fetchList"})
            => KeepsEveryAttempt)
    /\ [][/\ (pc = "save" /\ faults' = faults + 1 /\ currentStations' # None)
                => /\ pc' = ret
                   /\ exitCode' = exitCode
                   /\ currentStations' = Some(sortStationsById(currentStations[1]))
                   /\ UNCHANGED <<queue, idx, processedCount, timeLimitReached>>
          /\ (pc = "save" /\ faults' = faults /\ pc' # "save")
                => Persisted'
         ]_vars

\* a write of the checkpoint after the second fetch of an invocation failed,
\* two more stations were fetched, and the checkpoint after the fourth fetch
\* has written both files with all four attempts
C29_Witness ==
    /\ invocations = 1 /\ faults = 1
    /\ pc = "loop" /\ ret = "loop"
    /\ Len(attempted) = 4
    /\ currentStations # None
    /\ \A k \in 1..4 : currentStations[1][k].fetchAttempts = 1
    /\ Persisted

\* C30: the detail fetches of an invocation go one after the other in the
\* order of the queue: while one is awaited (or the delay before it) every
\* earlier station of the queue that the loop did not pass over has been
\* fetched and recorded and no later one has; the first fetch of the invocation starts straight from the head
\* of the loop, every later one after the delay; and no delay is taken
\* before a fetch has been made.
C30_SequentialWithDelay ==
    /\ [](pc \in {"delay", "fetch"}
            => /\ idx <= Len(queue)
               /\ attempted = SelectSeq(SubSeq(queue, 1, idx - 1),
                                         LAMBDA i : ~ isFalsy(i)))
    /\ [][/\ (pc' = "fetch" /\ pc # "fetch")
                => IF attempted = <<>> THEN pc = "loop" ELSE pc = "delay"
          /\ (pc' = "delay" /\ pc # "delay")
                => (pc = "loop" /\ attempted # <<>>)
         ]_vars

\* out is the output due for the state array state: one record per station
\* in the same, ascending, id order; a succeeded station as its normalized
\* details, any other as a placeholder with its coordinates and its socket
\* ids in ascending order and nothing of a detail
OutputOf(state, out) ==
    /\ Len(out) = Len(state)
    /\ \A k \in 1..Len(out) :
        /\ out[k].id = state[k].id
        /\ k > 1 => out[k - 1].id < out[k].id
        /\ IF state[k].fetchStatus = "success"
           THEN /\ out[k].data = Some(normalizeStationData(RawDetail(state[k].id)))
                /\ out[k].basic = None
           ELSE /\ out[k].data = None
                /\ out[k].basic # None
                /\ out[k].basic[1].lat = state[k].lat
                /\ out[k].basic[1].lng = state[k].lng
                /\ LET socks == out[k].basic[1].sockets
                   IN  /\ Len(socks) = Len(state[k].sockets)
                       /\ {socks[j].id : j \in 1..Len(socks)}
                            = {state[k].sockets[j].id :
                                    j \in 1..Len(state[k].sockets)}
                       /\ \A j \in 2..Len(socks) : socks[j - 1].id < socks[j].id

\* C31: a saveState whose two writes are made leaves, for the snapshot, an
\* output file with one record per station of the state file, in the same
\* ascending id order: the normalized details for a station stored as
\* success, a placeholder with id, coordinates and bare socket ids for any
\* other.
C31_OutputPerEntity ==
    [][(pc = "save" /\ faults' = faults /\ pc' # "save")
        => /\ currentTs \in DOMAIN stateFiles' /\ stateFiles'[currentTs].ok
           /\ currentTs \in DOMAIN outputFiles' /\ outputFiles'[currentTs].ok
           /\ OutputOf(stateFiles'[currentTs].data, outputFiles'[currentTs].data)
      ]_vars

\* a checkpoint has written an output with a normalized station next to the
\* placeholder of a station that has sockets
C31_Witness ==
    /\ pc = "loop" /\ ret = "loop"
    /\ currentTs \in DOMAIN outputFiles /\ outputFiles[currentTs].ok
    /\ currentTs \in DOMAIN stateFiles
    /\ stateFiles[currentTs] = File(currentStations[1])
    /\ \E a, b \in 1..Len(outputFiles[currentTs].data) :
            /\ outputFiles[currentTs].data[a].data # None
            /\ outputFiles[currentTs].data[b].basic # None
            /\ outputFiles[currentTs].data[b].basic[1].sockets # <<>>

\* C32: in every store, in memory or in a readable state file, no station
\* has more than MAX_RETRIES attempts; a succeeded station has between 1 and
\* MAX_RETRIES, and a failed station that is no longer retried has exactly
\* MAX_RETRIES.
C32_AttemptsBounded ==
    \A store \in Stores : \A k \in 1..Len(store) :
        /\ store[k].fetchAttempts <= MAX_RETRIES
        /\ store[k].fetchStatus = "success" => store[k].fetchAttempts >= 1
        /\ PermanentlyFailed(store[k]) => store[k].fetchAttempts = MAX_RETRIES

\* the store in memory holds a station that succeeded at its last allowed
\* attempt and one that failed at it
C32_Witness ==
    /\ currentStations # None
    /\ \E a, b \in 1..Len(currentStations[1]) :
            /\ currentStations[1][a].fetchStatus = "success"
            /\ currentStations[1][a].fetchAttempts = MAX_RETRIES
            /\ currentStations[1][b].fetchStatus = "failed"
            /\ currentStations[1][b].fetchAttempts = MAX_RETRIES

\* every station of the snapshot the cycle began with is success or failed
\* with no retry left, on disk
CycleDone ==
    /\ generateTimestamp(1) \in DOMAIN stateFiles
    /\ stateFiles[generateTimestamp(1)].ok
    /\ \A k \in 1..Len(stateFiles[generateTimestamp(1)].data) :
            Settled(stateFiles[generateTimestamp(1)].data[k])

C34_UnhealthyAbsorbing ==
    (NewestLoadsAtStart /\ Complete(NewestAtStart) /\ RatioExceeds(NewestAtStart)) =>
        LET newest == Newest(diskAtStart[1])
        IN  /\ branch = "resume"
            /\ currentTs = newest
            /\ currentStations = Some(NewestAtStart)
            /\ listFetches = 0
            /\ attempted = <<>>
            /\ pc \notin {"fetchList", "loop", "delay", "fetch"}
            /\ ~ aliasWritten
            /\ alias = diskAtStart[3]
            /\ DOMAIN stateFiles \subseteq DOMAIN diskAtStart[1]
            /\ newest \in DOMAIN stateFiles
            /\ stateFiles[newest] = File(NewestAtStart)
            /\ Newest(stateFiles) = newest
            /\ Exited => lastExit = 1

C34_Witness ==
    /\ Exited
    /\ NewestLoadsAtStart
    /\ Complete(NewestAtStart)
    /\ RatioExceeds(NewestAtStart)
    /\ clock - createdOn[Newest(diskAtStart[1])] > MIN_INTERVAL_DAYS_IF_COMPLETE
    /\ Len(NewestAtStart) > 1
    /\ lastExit = 1

\* C35: while the store in memory is that of the same snapshot, no step
\* lowers the number of permanently failed stations or changes the number of
\* stations; and an invocation that resumes the snapshot on which the
\* invocation before it exited with 1 over the threshold starts from a store
\* over the threshold and exits with 1 as well.
C35_FailuresOnlyGrow ==
    /\ []((Exited /\ branch = "resume" /\ startStations # None
                /\ RatioExceeds(startStations[1])) => lastExit = 1)
    /\ [][/\ (currentStations # None /\ currentStations' # None
                /\ currentTs # None /\ currentTs' = currentTs
                /\ pc # "fetchList")
             => /\ Len(currentStations'[1]) = Len(currentStations[1])
                /\ NumPermanentlyFailed(currentStations'[1])
                        >= NumPermanentlyFailed(currentStations[1])
          /\ (Exited /\ lastExit = 1 /\ currentStations # None
                /\ RatioExceeds(currentStations[1])
                /\ branch' = "resume" /\ currentTs' = currentTs
                /\ invocations' = invocations + 1)
             => /\ startStations' # None
                /\ RatioExceeds(startStations'[1])]_vars

\* the second invocation in a row that ends with 1 on the same snapshot, whose
\* store was over the threshold and incomplete when it started
C35_Witness ==
    /\ Exited
    /\ lastExit = 1
    /\ branch = "resume"
    /\ startStations # None
    /\ RatioExceeds(startStations[1])
    /\ ~ Complete(startStations[1])
    /\ attempted # <<>>
    /\ invocations = 3

\* the ids of the retry-eligible stations of a store
EligibleIdSet(store) ==
    {store[k].id : k \in {j \in 1..Len(store) : RetryEligible(store[j])}}

\* C36: in an invocation that ran its loop and was not stopped by the time
\* limit, the stations fetched are, in ascending id order, exactly the
\* min(request limit, k) smallest ids among the k stations that were
\* retry-eligible when the loop started.
C36_FirstEligibleFetched ==
    (Exited /\ LoopStarted /\ ~ timeUpAtCheck) =>
        LET E == EligibleIdSet(startStations[1])
            n == Min(requestLimit, Cardinality(E))
        IN  /\ Len(attempted) = n
            /\ \A a, b \in 1..Len(attempted) : a < b => attempted[a] < attempted[b]
            /\ \A a \in 1..Len(attempted) :
                /\ attempted[a] \in E
                /\ \A e \in E :
                    e < attempted[a] => \E b \in 1..Len(attempted) : attempted[b] = e

\* C37: whenever no checkpoint is being written, every state file on disk
\* that loads has an output file, and that output file holds the clean
\* projection of the state file: every succeeded station with its normalized
\* details, every other one as a placeholder.
C37_StateOutputConsistent ==
    pc # "save" =>
        \A t \in DOMAIN stateFiles :
            stateFiles[t].ok =>
                /\ t \in DOMAIN outputFiles
                /\ outputFiles[t] = File(Projection(stateFiles[t].data))

\* C38: a fresh cycle whose listing is empty makes no detail fetch, leaves a
\* snapshot whose state and output artifacts hold no station, exits with 0
\* and writes that empty output to the alias, whatever the alias held before.
C38_EmptyListing ==
    (branch = "fresh" /\ pc # "fetchList" /\ ~ ListingFailed
            /\ startStations = Some(<<>>)) =>
        /\ currentStations = Some(<<>>)
        /\ Complete(currentStations[1])
        /\ ~ RatioExceeds(currentStations[1])
        /\ attempted = <<>>
        /\ pc \notin {"loop", "delay", "fetch"}
        /\ Exited =>
            /\ lastExit = 0
            /\ currentTs \in DOMAIN stateFiles \cap DOMAIN outputFiles
            /\ stateFiles[currentTs] = File(<<>>)
            /\ outputFiles[currentTs] = File(<<>>)
            /\ aliasWritten
            /\ alias = Some(File(<<>>))

\* the empty listing came when the alias held the stations of an earlier cycle
C38_Witness ==
    /\ Exited
    /\ branch = "fresh"
    /\ ~ ListingFailed
    /\ startStations = Some(<<>>)
    /\ diskAtStart[3] # None
    /\ diskAtStart[3][1].ok
    /\ diskAtStart[3][1].data # <<>>
    /\ alias = Some(File(<<>>))

====
